---- MODULE Spec2Model ----
(***************************************************************************)
(* Liming prescription engine (calculators/liming.py, utils/               *)
(* rainfall_lookup.py, api/liming.py).                                     *)
(*                                                                         *)
(* Numbers.  The program computes in floating point; the model computes    *)
(* in fixed point:                                                         *)
(*   pH                    integer, unit 0.01 pH        (5.8  -> 580)      *)
(*   curve slope           integer, unit 0.001 dt/ha/pH (-28.945 -> -28945)*)
(*   curve dose            integer, unit 1e-5 dt/ha = 0.001 kg/ha          *)
(*   dose, max rate        integer, unit 0.001 kg/ha                       *)
(*   conversion factor     integer, unit 0.001          (1.785 -> 1785)    *)
(*   NV, saturation        integer, percent                                *)
(*   leaching loss         integer, unit 0.1 kg/ha/year (round(x, 1))      *)
(* A product a*b/c is the floor of the exact quotient (MulDiv); the pH the *)
(* CEC inverse returns is taken to the nearest 0.01.                       *)
(* An optional number is <<>> (None) or <<v>>; an optional string is       *)
(* NoneStr or the string.                                                  *)
(***************************************************************************)
EXTENDS Integers, Sequences, FiniteSets, TLC

VARIABLES
    method,         \* LimingPrescription.method
    method_params,  \* the method_params dict of calculate_prescription
    soil_data,      \* the soil_data list of calculate_prescription
    results,        \* the results list built by calculate_prescription
    pc,             \* where the modelled call stands
    frame,          \* locals of the latest _calculate_*_prescription call
    call,           \* arguments of a direct call of a calculator function
    ret,            \* what that call returned
    rainfall_cache, \* the lru_cache of get_annual_rainfall
    lookups         \* the coordinates the body of get_annual_rainfall ran for

vars == <<method, method_params, soil_data, results, pc, frame, call, ret, rainfall_cache, lookups>>

NoneStr == "<None>"
None == <<>>
Some(v) == <<v>>
IsNone(o) == o = <<>>
Val(o) == o[1]

\* floor(a*b/c) for c > 0, b >= 0, without forming a*b
MulDiv(a, b, c) == (a \div c) * b + ((a % c) * b) \div c

Max(a, b) == IF a >= b THEN a ELSE b
Min(a, b) == IF a <= b THEN a ELSE b

(***************************************************************************)
(* VDLUFACalculator: tables                                                *)
(***************************************************************************)
SOIL_TEXTURES ==
    {"Sand", "Schwach Lehm Sand", "Stark Lehmiger Sand",
     "Sandiger Schl Lehm", "Toniger Lehm b.Ton"}

CROP_TYPES == {"Standard crops", "Other crops"}

LIME_CONVERSION_FACTORS ==
    [t \in {"CaO", "CaCO3", "Ca(OH)2", "Quicklime", "Slaked_lime",
            "Agrocarb", "Omya_Calciprill"} |->
        CASE t = "CaO" -> 1000
          [] t = "CaCO3" -> 1785
          [] t = "Ca(OH)2" -> 1321
          [] t = "Quicklime" -> 1000
          [] t = "Slaked_lime" -> 1321
          [] t = "Agrocarb" -> 2381
          [] t = "Omya_Calciprill" -> 1887]

\* convert_lime_type: CaO equivalent -> product; unknown product = CaO
convert_lime_type(cao_equivalent, target_lime_type) ==
    IF target_lime_type \in DOMAIN LIME_CONVERSION_FACTORS
    THEN MulDiv(cao_equivalent, LIME_CONVERSION_FACTORS[target_lime_type], 1000)
    ELSE cao_equivalent

\* _get_optimal_ph: optimal_ph_values.get(crop_type, {}).get(soil_texture, 6.5)
get_optimal_ph(soil_texture, crop_type) ==
    IF crop_type = "Standard crops" /\ soil_texture \in SOIL_TEXTURES THEN
        CASE soil_texture = "Sand" -> 590
          [] soil_texture = "Schwach Lehm Sand" -> 640
          [] soil_texture = "Stark Lehmiger Sand" -> 680
          [] soil_texture = "Sandiger Schl Lehm" -> 710
          [] soil_texture = "Toniger Lehm b.Ton" -> 730
    ELSE IF crop_type = "Other crops" /\ soil_texture \in SOIL_TEXTURES THEN
        CASE soil_texture = "Sand" -> 510
          [] soil_texture = "Schwach Lehm Sand" -> 550
          [] soil_texture = "Stark Lehmiger Sand" -> 580
          [] soil_texture = "Sandiger Schl Lehm" -> 610
          [] soil_texture = "Toniger Lehm b.Ton" -> 630
    ELSE 650

(***************************************************************************)
(* The forward curves.  Every branch of the source has the same shape,     *)
(*     if ph < minPh: ceiling                                              *)
(*     elif lo < ph < hi: s2*ph + i2                                       *)
(*     elif ph > zeroAbove: 0                                              *)
(*     else: s1*ph + i1                                                    *)
(* tested in this order; Curve keeps the order.                            *)
(***************************************************************************)
Curve(ph, minPh, ceiling, lo, hi, s2, i2, zeroAbove, s1, i1) ==
    IF ph < minPh THEN ceiling
    ELSE IF lo < ph /\ ph < hi THEN s2 * ph + i2
    ELSE IF ph > zeroAbove THEN 0
    ELSE s1 * ph + i1

\* _calculate_standard_crops (dt/ha CaO, unit 1e-5)
calculate_standard_crops(current_ph, soil_texture) ==
    CASE soil_texture = "Sand" ->
            Curve(current_ph, 400, 4500000, 530, 590, -11852, 6993000,
                  580, -28945, 16052000)
      [] soil_texture = "Schwach Lehm Sand" ->
            Curve(current_ph, 400, 7700000, 570, 640, -16667, 10667000,
                  630, -38710, 23147000)
      [] soil_texture = "Stark Lehmiger Sand" ->
            Curve(current_ph, 400, 8700000, 600, 680, -20000, 13600000,
                  670, -47912, 30254000)
      [] soil_texture = "Sandiger Schl Lehm" ->
            Curve(current_ph, 400, 11700000, 620, 710, -21250, 15087000,
                  700, -58122, 37854000)
      [] soil_texture = "Toniger Lehm b.Ton" ->
            Curve(current_ph, 400, 16000000, 630, 730, -22222, 16222000,
                  630, -76930, 50553000)
      [] OTHER ->  \* unknown texture: sand line without the second segment
            IF current_ph < 400 THEN 4500000
            ELSE IF current_ph > 580 THEN 0
            ELSE -28945 * current_ph + 16052000

\* _calculate_other_crops (dt/ha CaO, unit 1e-5)
calculate_other_crops(current_ph, soil_texture) ==
    CASE soil_texture = "Sand" ->
            Curve(current_ph, 340, 5000000, 460, 520, -8000, 4160000,
                  510, -37692, 17846000)
      [] soil_texture = "Schwach Lehm Sand" ->
            Curve(current_ph, 330, 8300000, 490, 560, -13333, 7466700,
                  550, -46348, 23591000)
      [] soil_texture = "Stark Lehmiger Sand" ->
            Curve(current_ph, 380, 9000000, 510, 590, -14286, 8428600,
                  580, -60989, 32204000)
      [] soil_texture = "Sandiger Schl Lehm" ->
            Curve(current_ph, 380, 10900000, 530, 620, -16250, 10075000,
                  610, -63309, 34987000)
      [] soil_texture = "Toniger Lehm b.Ton" ->
            Curve(current_ph, 380, 12100000, 540, 640, -17778, 11378000,
                  630, -65000, 36824000)
      [] OTHER -> 0

\* the crop_type dispatch of calculate_lime_requirement (lines 413-422)
forward_cao_dt_ha(current_ph, mapped_texture, crop_type) ==
    IF crop_type = "Standard crops"
    THEN calculate_standard_crops(current_ph, mapped_texture)
    ELSE calculate_other_crops(current_ph, mapped_texture)

(***************************************************************************)
(* Texture strings.  TLA+ has no string functions, so upper(), lower() and *)
(* the substring tests of map_soil_texture are tabulated over RawTextures,  *)
(* the texture strings the model feeds in.                                 *)
(***************************************************************************)
TEXTURE_MAPPING ==
    [k \in {"Bog", "Clay", "Clayey loam", "half-bog soil", "loamy clay", "sand",
            "sandy loam", "silty clay", "silty loam", "slightly clayey loam",
            "slightly loamy sand", "very loamy sand", "CLAY", "SANDY_LOAM",
            "SILTY_LOAM", "SAND", "Sand", "Schwach Lehm Sand",
            "Stark Lehmiger Sand", "Sandiger Schl Lehm", "Toniger Lehm b.Ton"} |->
        CASE k \in {"Bog", "half-bog soil"} -> NoneStr
          [] k \in {"Clay", "Clayey loam", "loamy clay", "silty clay",
                    "slightly clayey loam", "CLAY", "Toniger Lehm b.Ton"}
                -> "Toniger Lehm b.Ton"
          [] k \in {"sand", "SAND", "Sand"} -> "Sand"
          [] k \in {"sandy loam", "SANDY_LOAM", "Sandiger Schl Lehm"}
                -> "Sandiger Schl Lehm"
          [] k \in {"silty loam", "very loamy sand", "SILTY_LOAM",
                    "Stark Lehmiger Sand"} -> "Stark Lehmiger Sand"
          [] k \in {"slightly loamy sand", "Schwach Lehm Sand"}
                -> "Schwach Lehm Sand"]

\* the texture strings of the model: table keys, case variants of keys,
\* strings matched only by a keyword, strings matched by nothing, the empty
\* string
RawTextures ==
    {"Sand", "sand", "SAND", "Schwach Lehm Sand", "Stark Lehmiger Sand",
     "Sandiger Schl Lehm", "Toniger Lehm b.Ton", "Bog", "half-bog soil",
     "clay", "Clay", "CLAY", "sandy loam", "Sandy Loam", "SANDY LOAM",
     "SANDY_LOAM", "Loam", "Lehm", "Silt", "Silty Clay", "Peat", ""}

\* str.upper()
StrUpper(s) ==
    CASE s \in {"Sand", "sand", "SAND"} -> "SAND"
      [] s \in {"clay", "Clay", "CLAY"} -> "CLAY"
      [] s \in {"sandy loam", "Sandy Loam", "SANDY LOAM"} -> "SANDY LOAM"
      [] s = "SANDY_LOAM" -> "SANDY_LOAM"
      [] s = "Schwach Lehm Sand" -> "SCHWACH LEHM SAND"
      [] s = "Stark Lehmiger Sand" -> "STARK LEHMIGER SAND"
      [] s = "Sandiger Schl Lehm" -> "SANDIGER SCHL LEHM"
      [] s = "Toniger Lehm b.Ton" -> "TONIGER LEHM B.TON"
      [] s = "Bog" -> "BOG"
      [] s = "half-bog soil" -> "HALF-BOG SOIL"
      [] s = "Loam" -> "LOAM"
      [] s = "Lehm" -> "LEHM"
      [] s = "Silt" -> "SILT"
      [] s = "Silty Clay" -> "SILTY CLAY"
      [] s = "Peat" -> "PEAT"
      [] s = "" -> ""

\* str.lower()
StrLower(s) ==
    CASE s \in {"Sand", "sand", "SAND"} -> "sand"
      [] s \in {"clay", "Clay", "CLAY"} -> "clay"
      [] s \in {"sandy loam", "Sandy Loam", "SANDY LOAM"} -> "sandy loam"
      [] s = "SANDY_LOAM" -> "sandy_loam"
      [] s = "Schwach Lehm Sand" -> "schwach lehm sand"
      [] s = "Stark Lehmiger Sand" -> "stark lehmiger sand"
      [] s = "Sandiger Schl Lehm" -> "sandiger schl lehm"
      [] s = "Toniger Lehm b.Ton" -> "toniger lehm b.ton"
      [] s = "Bog" -> "bog"
      [] s = "half-bog soil" -> "half-bog soil"
      [] s = "Loam" -> "loam"
      [] s = "Lehm" -> "lehm"
      [] s = "Silt" -> "silt"
      [] s = "Silty Clay" -> "silty clay"
      [] s = "Peat" -> "peat"
      [] s = "" -> ""

\* the keywords kw with  kw in s.lower()
KeywordsIn(s) ==
    CASE s \in {"Sand", "sand", "SAND"} -> {"sand"}
      [] s \in {"clay", "Clay", "CLAY"} -> {"clay"}
      [] s \in {"sandy loam", "Sandy Loam", "SANDY LOAM", "SANDY_LOAM"}
            -> {"sand", "loam"}
      [] s \in {"Schwach Lehm Sand", "Stark Lehmiger Sand"} -> {"sand", "lehm"}
      [] s = "Sandiger Schl Lehm" -> {"sand", "lehm"}
      [] s = "Toniger Lehm b.Ton" -> {"lehm"}
      [] s = "Loam" -> {"loam"}
      [] s = "Lehm" -> {"lehm"}
      [] s = "Silt" -> {"silt"}
      [] s = "Silty Clay" -> {"silt", "clay"}
      [] s \in {"Bog", "half-bog soil", "Peat", ""} -> {}

\* a resolver whose last resort is a guess ("Sand") instead of None
map_soil_texture_guessing(api_texture) ==
    IF api_texture = NoneStr THEN NoneStr
    ELSE IF api_texture \in DOMAIN TEXTURE_MAPPING
            /\ TEXTURE_MAPPING[api_texture] # NoneStr
        THEN TEXTURE_MAPPING[api_texture]
    ELSE IF "clay" \in KeywordsIn(api_texture) THEN "Toniger Lehm b.Ton"
    ELSE IF api_texture = "" THEN NoneStr
    ELSE "Sand"

\* VDLUFACalculator.map_soil_texture
map_soil_texture(api_texture) ==
    IF api_texture = NoneStr THEN NoneStr
    ELSE IF api_texture \in DOMAIN TEXTURE_MAPPING
        THEN TEXTURE_MAPPING[api_texture]
    ELSE IF StrUpper(api_texture) \in DOMAIN TEXTURE_MAPPING
        THEN TEXTURE_MAPPING[StrUpper(api_texture)]
    ELSE IF "sand" \in KeywordsIn(api_texture)
        THEN IF "loam" \in KeywordsIn(api_texture)
             THEN "Schwach Lehm Sand" ELSE "Sand"
    ELSE IF "clay" \in KeywordsIn(api_texture) THEN "Toniger Lehm b.Ton"
    ELSE IF "loam" \in KeywordsIn(api_texture) \/ "lehm" \in KeywordsIn(api_texture)
        THEN "Stark Lehm Sand"
    ELSE IF "silt" \in KeywordsIn(api_texture) THEN "Sandiger Schl Lehm"
    ELSE NoneStr

(***************************************************************************)
(* Results of a call that may raise                                        *)
(***************************************************************************)
Returned(v) == [raised |-> FALSE, value |-> v]
Raised == [raised |-> TRUE, value |-> 0]

(***************************************************************************)
(* `ph >= ref - 0.1` as the program evaluates it.  ref - 0.1 is a double   *)
(* subtraction: for the refs below its result lies one ulp above the       *)
(* decimal ref - 0.1 (5.9 - 0.1 = 5.800000000000001), so ph = ref - 0.1 is *)
(* not >= it.  The set lists the multiples of 0.1 in 3.0 .. 9.0 for which  *)
(* this happens; every reference pH of the model is a multiple of 0.1.     *)
(***************************************************************************)
MinusTenthRoundsUp ==
    {420, 440, 470, 490, 520, 540, 570, 590, 620, 640, 670, 690, 720, 740,
     770, 790, 830, 880}

GeRefMinusTenth(ph, ref) ==
    IF ref \in MinusTenthRoundsUp THEN ph > ref - 10 ELSE ph >= ref - 10

(***************************************************************************)
(* Leaching loss L (unit 0.1 kg/ha CaCO3) -> product dose (0.001 kg/ha)    *)
(***************************************************************************)
\* the chain collapsed into one step, 100 / nv applied to L itself: what the
\* maintenance branches would compute without the CaCO3 -> CaO division
collapsed_product(caco3_loss_kg_ha, nv) ==
    (caco3_loss_kg_ha * 100 * 100) \div nv

\* lines 395-398 and 797-800: cao = L / 1.785; product = cao * (100 / nv)
two_step_product(caco3_loss_kg_ha, nv) ==
    MulDiv(MulDiv(caco3_loss_kg_ha * 100, 1000, 1785), 100, nv)

\* line 816: product = L * (100 / nv)
one_step_product(caco3_loss_kg_ha, nv) ==
    MulDiv(caco3_loss_kg_ha * 100, 100, nv)

(***************************************************************************)
(* VDLUFACalculator.calculate_lime_requirement                             *)
(***************************************************************************)
vdlufa_improvement(current_ph, mapped_texture, crop_type, lime_type) ==
    \* cao_kg_ha = cao_dt_ha * 100: 1e-5 dt/ha is 0.001 kg/ha, same integer
    convert_lime_type(forward_cao_dt_ha(current_ph, mapped_texture, crop_type),
                      lime_type)

\* a maintenance branch that tests current_ph > optimal_ph: at the optimal pH
\* itself it would still dose the leaching loss
vdlufa_maintenance_strict(current_ph, optimal_ph, caco3_loss_kg_ha, nv) ==
    IF current_ph > optimal_ph THEN Returned(0)
    ELSE IF ~IsNone(caco3_loss_kg_ha) THEN
        IF nv = 0 THEN Raised
        ELSE Returned(two_step_product(Val(caco3_loss_kg_ha), nv))
    ELSE Returned(0)

vdlufa_maintenance(current_ph, optimal_ph, caco3_loss_kg_ha, nv) ==
    IF current_ph >= optimal_ph THEN Returned(0)
    ELSE IF ~IsNone(caco3_loss_kg_ha) THEN
        IF nv = 0 THEN Raised    \* 100 / nv: ZeroDivisionError
        ELSE Returned(two_step_product(Val(caco3_loss_kg_ha), nv))
    ELSE Returned(0)

vdlufa_automatic(current_ph, optimal_ph, mapped_texture, crop_type, lime_type) ==
    IF current_ph >= optimal_ph THEN Returned(0)
    ELSE Returned(vdlufa_improvement(current_ph, mapped_texture, crop_type, lime_type))

\* a calculator whose maintenance branch, left without a loss value, falls
\* through to the improvement curve
vdlufa_calculate_with_fallback(current_ph, soil_texture, crop_type, lime_type, liming_mode, caco3_loss_kg_ha, nv) ==
    LET mapped_texture == map_soil_texture(soil_texture)
        optimal_ph == get_optimal_ph(mapped_texture, crop_type)
    IN  IF liming_mode = "pH Maintenance" /\ ~IsNone(caco3_loss_kg_ha)
        THEN vdlufa_maintenance(current_ph, optimal_ph, caco3_loss_kg_ha, nv)
        ELSE IF liming_mode \in {"Automatic", "pH Maintenance"}
        THEN vdlufa_automatic(current_ph, optimal_ph, mapped_texture, crop_type,
                              lime_type)
        ELSE Returned(vdlufa_improvement(current_ph, mapped_texture, crop_type,
                                         lime_type))

vdlufa_calculate_lime_requirement(current_ph, soil_texture, crop_type, lime_type, liming_mode, caco3_loss_kg_ha, nv) ==
    LET mapped_texture == map_soil_texture(soil_texture)
        optimal_ph == get_optimal_ph(mapped_texture, crop_type)
    IN  IF liming_mode = "pH Maintenance"
        THEN vdlufa_maintenance(current_ph, optimal_ph, caco3_loss_kg_ha, nv)
        ELSE IF liming_mode = "Automatic"
        THEN vdlufa_automatic(current_ph, optimal_ph, mapped_texture, crop_type,
                              lime_type)
        ELSE Returned(vdlufa_improvement(current_ph, mapped_texture, crop_type,
                                         lime_type))

\* VDLUFACalculator.reverse_calculate_ph with current_ph given (lines 174-220)
vdlufa_reverse_calculate_ph(lime_kg_ha, soil_texture, crop_type, lime_type, current_ph) ==
    LET mapped_texture == map_soil_texture(soil_texture)
        optimal_ph == get_optimal_ph(mapped_texture, crop_type)
        lime_to_optimal ==
            vdlufa_improvement(current_ph, mapped_texture, crop_type, lime_type)
    IN  IF lime_kg_ha <= 0 THEN current_ph
        ELSE IF lime_to_optimal <= 0 THEN current_ph
        ELSE IF lime_kg_ha >= lime_to_optimal THEN optimal_ph
        ELSE current_ph
             + MulDiv(lime_kg_ha, Max(optimal_ph - current_ph, 0), lime_to_optimal)
             - MulDiv(lime_kg_ha, Max(current_ph - optimal_ph, 0), lime_to_optimal)

(***************************************************************************)
(* CECCalculator                                                           *)
(*   cec_soil meq/100g (integer), fine_dry_soil (integer), dose unit 0.1   *)
(***************************************************************************)
\* _calculate_standard:
\*   (cec*150/3500*fds) / (nv*10) / 0.5 * ((target - current) * dose) * 1000
\*   = cec * fds * (target - current) * dose * 60 / (7 * nv)
cec_calculate_standard(current_ph, target_ph, cec_soil, fine_dry_soil, nv, dose) ==
    IF current_ph >= target_ph THEN Returned(0)
    ELSE IF nv = 0 THEN Raised    \* numerator / (nv * 10): ZeroDivisionError
    ELSE Returned(Max(0, MulDiv(cec_soil * fine_dry_soil,
                                (target_ph - current_ph) * dose * 60, 7 * nv)))

\* a conversion that keeps the lower segment's slope above 50 %
s_cec_to_ph_one_slope(s_cec_percentage) == 450 + s_cec_percentage * 4

\* _s_cec_to_ph
s_cec_to_ph(s_cec_percentage) ==
    IF s_cec_percentage <= 50 THEN 450 + s_cec_percentage * 4
    ELSE 650 + (s_cec_percentage - 50) * 3

\* _calculate_with_modified_s_cec
cec_calculate_with_modified_s_cec(current_ph, target_ph, cec_soil, fine_dry_soil, nv, dose, s_cec_percentage, modified_s_cec) ==
    LET calculated_s_cec_ph == s_cec_to_ph(modified_s_cec)
        qty_current == cec_calculate_standard(current_ph, target_ph, cec_soil,
                                              fine_dry_soil, nv, dose)
        qty_s_cec == cec_calculate_standard(calculated_s_cec_ph, target_ph,
                                            cec_soil, fine_dry_soil, nv, dose)
    IN  \* average_ph = (current_ph + calculated_s_cec_ph) / 2 > target_ph
        IF current_ph + calculated_s_cec_ph > 2 * target_ph THEN Returned(0)
        ELSE IF qty_current.raised \/ qty_s_cec.raised THEN Raised
        ELSE Returned((qty_current.value + qty_s_cec.value) \div 2)

\* lines 825-835: the dispatch on the saturation pair
cec_forward(current_ph, effective_target_ph, cec_soil, fine_dry_soil, nv, dose, s_cec_percentage, modified_s_cec) ==
    IF IsNone(modified_s_cec) \/ IsNone(s_cec_percentage)
    THEN cec_calculate_standard(current_ph, effective_target_ph, cec_soil,
                                fine_dry_soil, nv, dose)
    ELSE cec_calculate_with_modified_s_cec(current_ph, effective_target_ph,
             cec_soil, fine_dry_soil, nv, dose,
             Val(s_cec_percentage), Val(modified_s_cec))

cec_maintenance(current_ph, target_ph, nv, caco3_loss_kg_ha) ==
    IF current_ph >= target_ph THEN Returned(0)
    ELSE IF ~IsNone(caco3_loss_kg_ha) THEN
        IF nv = 0 THEN Raised
        ELSE Returned(two_step_product(Val(caco3_loss_kg_ha), nv))
    ELSE Returned(0)

\* CECCalculator.calculate_lime_requirement
cec_calculate_lime_requirement(current_ph, target_ph, cec_soil, fine_dry_soil, nv, dose, s_cec_percentage, modified_s_cec, liming_mode, caco3_loss_kg_ha) ==
    IF liming_mode = "pH Maintenance"
    THEN cec_maintenance(current_ph, target_ph, nv, caco3_loss_kg_ha)
    ELSE IF liming_mode = "Automatic" THEN
        IF current_ph > target_ph THEN Returned(0)
        ELSE IF GeRefMinusTenth(current_ph, target_ph) THEN
            IF ~IsNone(caco3_loss_kg_ha) THEN
                IF nv = 0 THEN Raised
                ELSE Returned(one_step_product(Val(caco3_loss_kg_ha), nv))
            ELSE cec_forward(current_ph, current_ph + 10, cec_soil, fine_dry_soil,
                             nv, dose, s_cec_percentage, modified_s_cec)
        ELSE cec_forward(current_ph, target_ph, cec_soil, fine_dry_soil, nv, dose,
                         s_cec_percentage, modified_s_cec)
    ELSE cec_forward(current_ph, target_ph, cec_soil, fine_dry_soil, nv, dose,
                     s_cec_percentage, modified_s_cec)

\* an inverse that leaves the dose factor out: current + lime / K
cec_reverse_without_dose(lime_kg_ha, current_ph, cec_soil, fine_dry_soil, nv, dose) ==
    IF lime_kg_ha <= 0 THEN Returned(current_ph)
    ELSE IF nv = 0 THEN Raised
    ELSE IF cec_soil * fine_dry_soil * dose = 0 THEN Returned(current_ph)
    ELSE LET x == MulDiv(lime_kg_ha, 7 * nv, cec_soil * fine_dry_soil)
         IN  Returned(current_ph + (2 * x + 600) \div 1200)

\* CECCalculator.reverse_calculate_ph:
\*   K = cec*150/3500*fds / (nv*10) / 0.5 * 1000;  current + lime / (K * dose)
cec_reverse_calculate_ph(lime_kg_ha, current_ph, cec_soil, fine_dry_soil, nv, dose) ==
    IF lime_kg_ha <= 0 THEN Returned(current_ph)
    ELSE IF nv = 0 THEN Raised    \* numerator / (nv * 10): ZeroDivisionError
    ELSE IF cec_soil * fine_dry_soil * dose = 0 THEN Returned(current_ph)
    ELSE LET x == MulDiv(lime_kg_ha, 7 * nv, cec_soil * fine_dry_soil)
         IN  \* lime / (K * dose), to the nearest 0.01 pH
             Returned(current_ph + (2 * x + dose * 60) \div (2 * dose * 60))

(***************************************************************************)
(* CECCalculator: texture conversion and exchange capacity                 *)
(***************************************************************************)
\* TEXTURE_TO_USDA_MAPPING restricted to RawTextures (the other keys are never
\* looked up by the model)
TEXTURE_TO_USDA_MAPPING ==
    [k \in {"Sand", "Schwach Lehm Sand", "Stark Lehmiger Sand",
            "Sandiger Schl Lehm", "Toniger Lehm b.Ton", "SAND", "SANDY_LOAM",
            "CLAY", "sand", "clay", "sandy loam", "Sandy Loam", "Silt",
            "Silty Clay", "Loam"} |->
        CASE k \in {"Sand", "SAND", "sand"} -> "Sand"
          [] k \in {"Schwach Lehm Sand", "SANDY_LOAM", "sandy loam", "Sandy Loam"}
                -> "Sandy Loam"
          [] k = "Stark Lehmiger Sand" -> "Loamy Sand"
          [] k = "Sandiger Schl Lehm" -> "Sandy Silt Loam"
          [] k = "Toniger Lehm b.Ton" -> "Clay Loam"
          [] k \in {"CLAY", "clay"} -> "Clay"
          [] k = "Silt" -> "Silt"
          [] k = "Silty Clay" -> "Silty Clay"
          [] k = "Loam" -> "Loam"]

\* CECCalculator.convert_to_usda_texture
convert_to_usda_texture(soil_texture) ==
    IF soil_texture = NoneStr \/ soil_texture = "" THEN NoneStr
    ELSE IF soil_texture \in DOMAIN TEXTURE_TO_USDA_MAPPING
        THEN TEXTURE_TO_USDA_MAPPING[soil_texture]
    ELSE soil_texture

\* the patterns p of get_cec_for_texture's partial matching with
\* p in soil_texture.lower()
CecPatternsIn(s) ==
    CASE s \in {"Sand", "sand", "SAND", "Schwach Lehm Sand",
                "Stark Lehmiger Sand", "Sandiger Schl Lehm", "SANDY_LOAM"}
            -> {"sand"}
      [] s \in {"sandy loam", "Sandy Loam", "SANDY LOAM"} -> {"sandy loam", "sand"}
      [] s \in {"clay", "Clay", "CLAY"} -> {"clay"}
      [] s = "Silt" -> {"silt"}
      [] s = "Silty Clay" -> {"silty clay", "clay", "silt"}
      [] OTHER -> {}

\* CECCalculator.get_cec_for_texture with SOIL_CEC_VALUES empty: soil_cec.csv is
\* not part of the sources, load_cec_data() finds no file, and every
\* SOIL_CEC_VALUES.get(name, default) yields its default
get_cec_for_texture(soil_texture) ==
    LET p == CecPatternsIn(soil_texture)
    IN  IF soil_texture = NoneStr \/ soil_texture = "" THEN 15
        ELSE IF "organic" \in p THEN 100
        ELSE IF "clay loam" \in p THEN 25
        ELSE IF "sandy clay loam" \in p THEN 30
        ELSE IF "silty clay" \in p THEN 30
        ELSE IF "sandy clay" \in p THEN 20
        ELSE IF "clay" \in p THEN 40
        ELSE IF "sandy loam" \in p THEN 10
        ELSE IF "sandy silt loam" \in p THEN 20
        ELSE IF "silt loam" \in p THEN 20
        ELSE IF "loamy sand" \in p THEN 15
        ELSE IF "silt" \in p THEN 15
        ELSE IF "sand" \in p THEN 5
        ELSE 15

(***************************************************************************)
(* utils/rainfall_lookup.py                                                *)
(***************************************************************************)
VDLUFA_TEXTURE_TO_CLAY ==
    [t \in {"Sand", "Schwach Lehm Sand", "Stark Lehmiger Sand",
            "Sandiger Schl Lehm", "Toniger Lehm b.Ton", "Lehm", "Schluff", "Ton"} |->
        CASE t = "Sand" -> 5
          [] t = "Schwach Lehm Sand" -> 12
          [] t = "Stark Lehmiger Sand" -> 12
          [] t = "Sandiger Schl Lehm" -> 15
          [] t = "Toniger Lehm b.Ton" -> 32
          [] t = "Lehm" -> 20
          [] t = "Schluff" -> 10
          [] t = "Ton" -> 60]

CEC_TEXTURE_TO_CLAY ==
    [t \in {"Sand", "Loamy Sand", "Sandy Loam", "Loam", "Silt Loam", "Silt",
            "Sandy Clay Loam", "Clay Loam", "Sandy Clay", "Silty Clay", "Clay",
            "Sandy Silt Loam", "Organic", "sand", "loamy sand", "sandy loam",
            "loam", "silt loam", "silt", "sandy clay loam", "clay loam",
            "sandy clay", "silty clay", "clay", "organic"} |->
        CASE t \in {"Sand", "sand"} -> 5
          [] t \in {"Loamy Sand", "loamy sand"} -> 8
          [] t \in {"Sandy Loam", "sandy loam"} -> 10
          [] t \in {"Loam", "loam"} -> 18
          [] t \in {"Silt Loam", "silt loam"} -> 15
          [] t \in {"Silt", "silt"} -> 6
          [] t \in {"Sandy Clay Loam", "sandy clay loam"} -> 27
          [] t \in {"Clay Loam", "clay loam"} -> 33
          [] t \in {"Sandy Clay", "sandy clay"} -> 42
          [] t \in {"Silty Clay", "silty clay"} -> 47
          [] t \in {"Clay", "clay"} -> 60
          [] t = "Sandy Silt Loam" -> 17
          [] t \in {"Organic", "organic"} -> 20]

\* get_bicarbonate_factor: max(5, min(500, 0.002304 * ph ** 5.792337)) for
\* ph = 0.00, 0.01, ..., 14.00, in 0.001 mg/L to the nearest unit (TLA+ has no
\* real powers: the values are the function's, entry i + 1 for ph = i / 100)
BICARBONATE_FACTOR ==
  <<
    5000, 5000, 5000, 5000, 5000, 5000, 5000, 5000, 5000, 5000,
    5000, 5000, 5000, 5000, 5000, 5000, 5000, 5000, 5000, 5000,
    5000, 5000, 5000, 5000, 5000, 5000, 5000, 5000, 5000, 5000,
    5000, 5000, 5000, 5000, 5000, 5000, 5000, 5000, 5000, 5000,
    5000, 5000, 5000, 5000, 5000, 5000, 5000, 5000, 5000, 5000,
    5000, 5000, 5000, 5000, 5000, 5000, 5000, 5000, 5000, 5000,
    5000, 5000, 5000, 5000, 5000, 5000, 5000, 5000, 5000, 5000,
    5000, 5000, 5000, 5000, 5000, 5000, 5000, 5000, 5000, 5000,
    5000, 5000, 5000, 5000, 5000, 5000, 5000, 5000, 5000, 5000,
    5000, 5000, 5000, 5000, 5000, 5000, 5000, 5000, 5000, 5000,
    5000, 5000, 5000, 5000, 5000, 5000, 5000, 5000, 5000, 5000,
    5000, 5000, 5000, 5000, 5000, 5000, 5000, 5000, 5000, 5000,
    5000, 5000, 5000, 5000, 5000, 5000, 5000, 5000, 5000, 5000,
    5000, 5000, 5000, 5000, 5000, 5000, 5000, 5000, 5000, 5000,
    5000, 5000, 5000, 5000, 5000, 5000, 5000, 5000, 5000, 5000,
    5000, 5000, 5000, 5000, 5000, 5000, 5000, 5000, 5000, 5000,
    5000, 5000, 5000, 5000, 5000, 5000, 5000, 5000, 5000, 5000,
    5000, 5000, 5000, 5000, 5000, 5000, 5000, 5000, 5000, 5000,
    5000, 5000, 5000, 5000, 5000, 5000, 5000, 5000, 5000, 5000,
    5000, 5000, 5000, 5000, 5000, 5000, 5000, 5000, 5000, 5000,
    5000, 5000, 5000, 5000, 5000, 5000, 5000, 5000, 5000, 5000,
    5000, 5000, 5000, 5000, 5000, 5000, 5000, 5000, 5000, 5000,
    5000, 5000, 5000, 5000, 5000, 5000, 5000, 5000, 5000, 5000,
    5000, 5000, 5000, 5000, 5000, 5000, 5000, 5000, 5000, 5000,
    5000, 5000, 5000, 5000, 5000, 5000, 5000, 5000, 5000, 5000,
    5000, 5000, 5000, 5000, 5000, 5000, 5000, 5000, 5000, 5000,
    5000, 5000, 5000, 5000, 5000, 5000, 5000, 5000, 5000, 5000,
    5000, 5000, 5000, 5000, 5000, 5000, 5000, 5000, 5000, 5000,
    5000, 5000, 5000, 5000, 5000, 5000, 5000, 5000, 5000, 5000,
    5000, 5000, 5000, 5000, 5000, 5000, 5000, 5000, 5000, 5000,
    5000, 5000, 5000, 5000, 5000, 5000, 5000, 5000, 5000, 5000,
    5000, 5000, 5000, 5000, 5000, 5000, 5000, 5000, 5000, 5000,
    5000, 5000, 5000, 5000, 5000, 5000, 5000, 5000, 5000, 5000,
    5000, 5000, 5000, 5000, 5000, 5000, 5000, 5000, 5000, 5000,
    5000, 5000, 5000, 5000, 5000, 5000, 5000, 5000, 5000, 5000,
    5000, 5000, 5000, 5000, 5000, 5000, 5000, 5000, 5000, 5000,
    5000, 5000, 5000, 5000, 5000, 5000, 5000, 5000, 5000, 5000,
    5000, 5000, 5000, 5000, 5000, 5000, 5000, 5022, 5099, 5178,
    5258, 5338, 5420, 5503, 5586, 5671, 5757, 5844, 5932, 6021,
    6111, 6203, 6295, 6389, 6483, 6579, 6676, 6775, 6874, 6975,
    7076, 7180, 7284, 7389, 7496, 7604, 7714, 7825, 7937, 8050,
    8165, 8281, 8398, 8517, 8637, 8758, 8881, 9006, 9132, 9259,
    9388, 9518, 9649, 9783, 9917, 10054, 10191, 10331, 10472, 10614,
    10758, 10904, 11051, 11200, 11351, 11503, 11657, 11813, 11971, 12130,
    12291, 12453, 12618, 12784, 12952, 13122, 13294, 13467, 13643, 13820,
    13999, 14181, 14364, 14549, 14736, 14925, 15116, 15309, 15504, 15701,
    15900, 16101, 16305, 16510, 16718, 16928, 17140, 17354, 17570, 17789,
    18009, 18233, 18458, 18686, 18916, 19148, 19383, 19620, 19859, 20101,
    20345, 20592, 20841, 21093, 21347, 21604, 21863, 22125, 22389, 22656,
    22926, 23198, 23473, 23751, 24032, 24315, 24601, 24889, 25181, 25475,
    25772, 26072, 26375, 26681, 26990, 27301, 27616, 27934, 28254, 28578,
    28905, 29234, 29567, 29903, 30243, 30585, 30931, 31280, 31632, 31987,
    32346, 32708, 33073, 33442, 33814, 34189, 34568, 34950, 35336, 35726,
    36119, 36515, 36915, 37319, 37727, 38138, 38552, 38971, 39393, 39819,
    40249, 40683, 41120, 41561, 42007, 42456, 42909, 43366, 43828, 44293,
    44762, 45236, 45713, 46195, 46681, 47171, 47666, 48165, 48668, 49175,
    49687, 50203, 50723, 51248, 51778, 52312, 52850, 53394, 53941, 54494,
    55051, 55613, 56179, 56750, 57327, 57907, 58493, 59084, 59680, 60280,
    60886, 61496, 62112, 62733, 63358, 63989, 64626, 65267, 65914, 66566,
    67223, 67886, 68554, 69227, 69906, 70590, 71280, 71976, 72677, 73384,
    74096, 74815, 75538, 76268, 77004, 77745, 78492, 79246, 80005, 80770,
    81541, 82319, 83102, 83892, 84687, 85490, 86298, 87112, 87933, 88761,
    89595, 90435, 91282, 92135, 92995, 93862, 94735, 95615, 96501, 97395,
    98295, 99202, 100116, 101038, 101966, 102901, 103843, 104792, 105749, 106712,
    107683, 108662, 109647, 110640, 111641, 112648, 113664, 114687, 115717, 116756,
    117801, 118855, 119917, 120986, 122063, 123148, 124241, 125342, 126451, 127568,
    128694, 129827, 130969, 132119, 133278, 134444, 135620, 136803, 137996, 139197,
    140406, 141624, 142851, 144087, 145332, 146585, 147847, 149119, 150399, 151688,
    152987, 154295, 155612, 156938, 158274, 159619, 160973, 162337, 163711, 165094,
    166487, 167889, 169301, 170723, 172155, 173597, 175049, 176511, 177983, 179465,
    180957, 182459, 183972, 185495, 187029, 188573, 190128, 191693, 193269, 194855,
    196453, 198061, 199680, 201310, 202951, 204603, 206266, 207940, 209625, 211322,
    213030, 214750, 216481, 218223, 219977, 221743, 223521, 225310, 227111, 228924,
    230749, 232586, 234435, 236296, 238169, 240055, 241953, 243863, 245786, 247722,
    249670, 251630, 253603, 255590, 257589, 259600, 261625, 263663, 265714, 267779,
    269856, 271947, 274051, 276169, 278300, 280445, 282603, 284775, 286961, 289161,
    291375, 293602, 295844, 298100, 300370, 302655, 304953, 307267, 309594, 311937,
    314294, 316665, 319052, 321453, 323869, 326300, 328747, 331208, 333685, 336177,
    338684, 341207, 343745, 346299, 348869, 351454, 354056, 356673, 359306, 361955,
    364621, 367302, 370000, 372714, 375445, 378192, 380956, 383736, 386534, 389348,
    392179, 395027, 397892, 400774, 403674, 406591, 409525, 412477, 415446, 418433,
    421438, 424461, 427501, 430560, 433637, 436731, 439844, 442976, 446126, 449294,
    452481, 455687, 458911, 462154, 465416, 468697, 471998, 475317, 478656, 482014,
    485392, 488789, 492206, 495643, 499099, 500000, 500000, 500000, 500000, 500000,
    500000, 500000, 500000, 500000, 500000, 500000, 500000, 500000, 500000, 500000,
    500000, 500000, 500000, 500000, 500000, 500000, 500000, 500000, 500000, 500000,
    500000, 500000, 500000, 500000, 500000, 500000, 500000, 500000, 500000, 500000,
    500000, 500000, 500000, 500000, 500000, 500000, 500000, 500000, 500000, 500000,
    500000, 500000, 500000, 500000, 500000, 500000, 500000, 500000, 500000, 500000,
    500000, 500000, 500000, 500000, 500000, 500000, 500000, 500000, 500000, 500000,
    500000, 500000, 500000, 500000, 500000, 500000, 500000, 500000, 500000, 500000,
    500000, 500000, 500000, 500000, 500000, 500000, 500000, 500000, 500000, 500000,
    500000, 500000, 500000, 500000, 500000, 500000, 500000, 500000, 500000, 500000,
    500000, 500000, 500000, 500000, 500000, 500000, 500000, 500000, 500000, 500000,
    500000, 500000, 500000, 500000, 500000, 500000, 500000, 500000, 500000, 500000,
    500000, 500000, 500000, 500000, 500000, 500000, 500000, 500000, 500000, 500000,
    500000, 500000, 500000, 500000, 500000, 500000, 500000, 500000, 500000, 500000,
    500000, 500000, 500000, 500000, 500000, 500000, 500000, 500000, 500000, 500000,
    500000, 500000, 500000, 500000, 500000, 500000, 500000, 500000, 500000, 500000,
    500000, 500000, 500000, 500000, 500000, 500000, 500000, 500000, 500000, 500000,
    500000, 500000, 500000, 500000, 500000, 500000, 500000, 500000, 500000, 500000,
    500000, 500000, 500000, 500000, 500000, 500000, 500000, 500000, 500000, 500000,
    500000, 500000, 500000, 500000, 500000, 500000, 500000, 500000, 500000, 500000,
    500000, 500000, 500000, 500000, 500000, 500000, 500000, 500000, 500000, 500000,
    500000, 500000, 500000, 500000, 500000, 500000, 500000, 500000, 500000, 500000,
    500000, 500000, 500000, 500000, 500000, 500000, 500000, 500000, 500000, 500000,
    500000, 500000, 500000, 500000, 500000, 500000, 500000, 500000, 500000, 500000,
    500000, 500000, 500000, 500000, 500000, 500000, 500000, 500000, 500000, 500000,
    500000, 500000, 500000, 500000, 500000, 500000, 500000, 500000, 500000, 500000,
    500000, 500000, 500000, 500000, 500000, 500000, 500000, 500000, 500000, 500000,
    500000, 500000, 500000, 500000, 500000, 500000, 500000, 500000, 500000, 500000,
    500000, 500000, 500000, 500000, 500000, 500000, 500000, 500000, 500000, 500000,
    500000, 500000, 500000, 500000, 500000, 500000, 500000, 500000, 500000, 500000,
    500000, 500000, 500000, 500000, 500000, 500000, 500000, 500000, 500000, 500000,
    500000, 500000, 500000, 500000, 500000, 500000, 500000, 500000, 500000, 500000,
    500000, 500000, 500000, 500000, 500000, 500000, 500000, 500000, 500000, 500000,
    500000, 500000, 500000, 500000, 500000, 500000, 500000, 500000, 500000, 500000,
    500000, 500000, 500000, 500000, 500000, 500000, 500000, 500000, 500000, 500000,
    500000, 500000, 500000, 500000, 500000, 500000, 500000, 500000, 500000, 500000,
    500000, 500000, 500000, 500000, 500000, 500000, 500000, 500000, 500000, 500000,
    500000, 500000, 500000, 500000, 500000, 500000, 500000, 500000, 500000, 500000,
    500000, 500000, 500000, 500000, 500000, 500000, 500000, 500000, 500000, 500000,
    500000, 500000, 500000, 500000, 500000, 500000, 500000, 500000, 500000, 500000,
    500000, 500000, 500000, 500000, 500000, 500000, 500000, 500000, 500000, 500000,
    500000, 500000, 500000, 500000, 500000, 500000, 500000, 500000, 500000, 500000,
    500000, 500000, 500000, 500000, 500000, 500000, 500000, 500000, 500000, 500000,
    500000, 500000, 500000, 500000, 500000, 500000, 500000, 500000, 500000, 500000,
    500000, 500000, 500000, 500000, 500000, 500000, 500000, 500000, 500000, 500000,
    500000, 500000, 500000, 500000, 500000, 500000, 500000, 500000, 500000, 500000,
    500000, 500000, 500000, 500000, 500000, 500000, 500000, 500000, 500000, 500000,
    500000, 500000, 500000, 500000, 500000, 500000, 500000, 500000, 500000, 500000,
    500000, 500000, 500000, 500000, 500000, 500000, 500000, 500000, 500000, 500000,
    500000, 500000, 500000, 500000, 500000, 500000, 500000, 500000, 500000, 500000,
    500000, 500000, 500000, 500000, 500000, 500000, 500000, 500000, 500000, 500000,
    500000, 500000, 500000, 500000, 500000, 500000, 500000, 500000, 500000, 500000,
    500000, 500000, 500000, 500000, 500000, 500000, 500000, 500000, 500000, 500000,
    500000, 500000, 500000, 500000, 500000, 500000, 500000, 500000, 500000, 500000,
    500000, 500000, 500000, 500000, 500000, 500000, 500000, 500000, 500000, 500000,
    500000, 500000, 500000, 500000, 500000, 500000, 500000, 500000, 500000, 500000,
    500000, 500000, 500000, 500000, 500000, 500000, 500000, 500000, 500000, 500000,
    500000
  >>

\* the stepwise factor the power law replaced
get_bicarbonate_factor_stepwise(ph) ==
    IF ph < 500 THEN 7000
    ELSE IF ph < 550 THEN 18000
    ELSE IF ph < 600 THEN 38000
    ELSE IF ph < 650 THEN 75000
    ELSE IF ph < 700 THEN 150000
    ELSE IF ph < 750 THEN 250000
    ELSE IF ph < 800 THEN 350000
    ELSE 450000

\* get_bicarbonate_factor(ph), ph in 0.01 from 0 to 1400
get_bicarbonate_factor(ph) == BICARBONATE_FACTOR[ph + 1]

\* calculate_drainage_coefficient: 0.6 - 0.005 * clay, unit 0.001
calculate_drainage_coefficient(clay_percent) == 600 - 5 * clay_percent

\* a loss model that looks a texture up in the other method's clay table when
\* the active method's table does not have it
calculate_caco3_loss_any_table(precipitation_mm, soil_texture, ph, method_name) ==
    LET own == IF method_name = "CEC" THEN CEC_TEXTURE_TO_CLAY
               ELSE VDLUFA_TEXTURE_TO_CLAY
        other == IF method_name = "CEC" THEN VDLUFA_TEXTURE_TO_CLAY
                 ELSE CEC_TEXTURE_TO_CLAY
        table == IF soil_texture \in DOMAIN own THEN own ELSE other
    IN  IF soil_texture \notin DOMAIN table THEN None
        ELSE LET pd == precipitation_mm
                       * calculate_drainage_coefficient(table[soil_texture])
                 pdb == MulDiv(pd, get_bicarbonate_factor(ph), 1000)
             IN  Some((MulDiv(pdb, 82, 100000) + 5) \div 10)

\* calculate_caco3_loss: the 'caco3_loss' entry of the returned dict, or None
calculate_caco3_loss(precipitation_mm, soil_texture, ph, method_name) ==
    LET table == IF method_name = "CEC" THEN CEC_TEXTURE_TO_CLAY
                 ELSE VDLUFA_TEXTURE_TO_CLAY
    IN  IF soil_texture \notin DOMAIN table THEN None
        ELSE LET pd == precipitation_mm
                       * calculate_drainage_coefficient(table[soil_texture])
                 pdb == MulDiv(pd, get_bicarbonate_factor(ph), 1000)
             IN  \* P * D * B * 0.82 / 100, round(., 1)
                 Some((MulDiv(pdb, 82, 100000) + 5) \div 10)

\* the rainfall data behind get_annual_rainfall (shapefile / remote service),
\* keyed by coordinates in 0.01 degree; every other coordinate has no data
RAINFALL_DATA == (<<1210, 4900>> :> 658) @@ (<<1340, 5250>> :> 1200)

\* get_annual_rainfall
get_annual_rainfall(longitude, latitude) ==
    IF <<longitude, latitude>> \in DOMAIN RAINFALL_DATA
    THEN Some(RAINFALL_DATA[<<longitude, latitude>>])
    ELSE None

\* round(x, 2) of a coordinate held in 0.001 degree, result in 0.01 degree
RoundCoord(x) == (x + 5) \div 10

\* A GeoJSON geometry: its type, the ring of points the centroid is taken
\* over (0.001 degree; the point itself for a Point, the exterior ring of the
\* first polygon otherwise; <<>> when there is none) and whether the
\* coordinates are numbers
Geometry(type, ring, numeric) == [type |-> type, ring |-> ring, numeric |-> numeric]

\* calculate_polygon_centroid: average of the ring's points; an empty ring
\* divides by zero
calculate_polygon_centroid(ring) ==
    LET n == Len(ring)
        S[i \in 0..n] == IF i = 0 THEN <<0, 0>>
                         ELSE <<S[i - 1][1] + ring[i][1], S[i - 1][2] + ring[i][2]>>
    IN  IF n = 0 THEN Raised
        ELSE Returned(<<S[n][1] \div n, S[n][2] \div n>>)

\* get_geometry_centroid: None for missing coordinates, for an unsupported
\* type and for any exception (caught at lines 259-261)
get_geometry_centroid(geometry) ==
    IF geometry.type = "Point"
    THEN IF geometry.ring = <<>> THEN None ELSE Some(geometry.ring[1])
    ELSE IF geometry.type \in {"Polygon", "MultiPolygon"}
    THEN IF ~geometry.numeric THEN None    \* sum() of non-numbers: TypeError
         ELSE IF calculate_polygon_centroid(geometry.ring).raised THEN None
         ELSE Some(calculate_polygon_centroid(geometry.ring).value)
    ELSE None

\* get_rainfall_from_geometry: the lookup at the rounded centroid; None when
\* there is no centroid and for any exception (caught at lines 219-221)
get_rainfall_from_geometry(geometry) ==
    LET centroid == get_geometry_centroid(geometry)
    IN  IF IsNone(centroid) THEN None
        ELSE IF ~geometry.numeric THEN None    \* round() of a non-number
        ELSE get_annual_rainfall(RoundCoord(Val(centroid)[1]),
                                 RoundCoord(Val(centroid)[2]))

\* @lru_cache(maxsize=1000) on get_annual_rainfall
maxsize == 1000

\* The cache is a sequence of entries <<key, value>>, least recently used
\* first; a key is the pair of arguments (longitude, latitude), the value is
\* what the body returned (a rainfall or None)
CacheKeys(cache) == {cache[i][1] : i \in DOMAIN cache}

CacheIndex(cache, key) == CHOOSE i \in DOMAIN cache : cache[i][1] = key

CacheValue(cache, key) == cache[CacheIndex(cache, key)][2]

\* a hit: the entry becomes the most recently used
CacheTouch(cache, key) ==
    LET i == CacheIndex(cache, key)
    IN  SubSeq(cache, 1, i - 1) \o SubSeq(cache, i + 1, Len(cache)) \o <<cache[i]>>

\* a miss whose body returned: the result is stored, and a full cache drops
\* its least recently used entry
CacheStore(cache, key, value) ==
    (IF Len(cache) >= maxsize THEN Tail(cache) ELSE cache) \o <<<<key, value>>>>

\* lines 208-216: the arguments get_rainfall_from_geometry calls
\* get_annual_rainfall with, or None when it returns before the call
lookup_key(geometry) ==
    LET centroid == get_geometry_centroid(geometry)
    IN  IF IsNone(centroid) \/ ~geometry.numeric THEN None
        ELSE Some(<<RoundCoord(Val(centroid)[1]), RoundCoord(Val(centroid)[2])>>)

\* the cache after calculate_prescription looked up a sample's boundary, the
\* rainfall data answering as RAINFALL_DATA says
cache_after(cache, boundary) ==
    IF IsNone(boundary) \/ IsNone(lookup_key(Val(boundary))) THEN cache
    ELSE LET key == Val(lookup_key(Val(boundary)))
         IN  IF key \in CacheKeys(cache) THEN CacheTouch(cache, key)
             ELSE CacheStore(cache, key, get_annual_rainfall(key[1], key[2]))

\* the body of get_annual_rainfall runs on a miss only
lookups_after(cache, done, boundary) ==
    IF IsNone(boundary) \/ IsNone(lookup_key(Val(boundary))) THEN done
    ELSE LET key == Val(lookup_key(Val(boundary)))
         IN  IF key \in CacheKeys(cache) THEN done ELSE Append(done, key)

(***************************************************************************)
(* LimingPrescription                                                      *)
(***************************************************************************)
LIMING_MODES == {"pH Improvement", "pH Maintenance", "Automatic"}

\* the tuple returned by _calculate_*_prescription (lime_req, applied_mode,
\* target_ph, was_capped) together with the locals the tuple was computed from
Frame(raised, lime_req, applied_mode, target_ph, was_capped, nominal, soil_texture, reference_ph, caco3_loss) ==
    [raised |-> raised, lime_req |-> lime_req, applied_mode |-> applied_mode,
     target_ph |-> target_ph, was_capped |-> was_capped,
     nominal |-> nominal,            \* lime_req before the cap
     soil_texture |-> soil_texture,  \* the texture handed to the calculator
     reference_ph |-> reference_ph,  \* optimal_ph / target_ph
     caco3_loss |-> caco3_loss]      \* the loss handed to the calculator

\* a not-applicable tuple that still names a target pH
NoFrameWithTarget ==
    Frame(FALSE, 0, "N/A", Some(650), FALSE, 0, NoneStr, None, None)

NoFrame == Frame(FALSE, 0, "N/A", None, FALSE, 0, NoneStr, None, None)

\* a label that does not tell a maintenance request at or above the reference
\* from one below it
applied_mode_label_flat(liming_mode, current_ph, reference_ph, noun) ==
    IF liming_mode = "Automatic" THEN
        IF current_ph > reference_ph
        THEN IF noun = "optimal" THEN "None (pH above optimal)"
             ELSE "None (pH above target)"
        ELSE IF GeRefMinusTenth(current_ph, reference_ph) THEN "Maintenance"
        ELSE "Improvement"
    ELSE IF liming_mode = "pH Maintenance" THEN "Maintenance"
    ELSE "Improvement"

\* a label that resolves every request that is not 'pH Maintenance' the way
\* 'Automatic' is resolved
applied_mode_label_resolving(liming_mode, current_ph, reference_ph, noun) ==
    IF liming_mode = "pH Maintenance" THEN
        IF current_ph >= reference_ph
        THEN IF noun = "optimal" THEN "None (pH at/above optimal)"
             ELSE "None (pH at/above target)"
        ELSE "Maintenance"
    ELSE IF current_ph > reference_ph
         THEN IF noun = "optimal" THEN "None (pH above optimal)"
              ELSE "None (pH above target)"
         ELSE IF GeRefMinusTenth(current_ph, reference_ph) THEN "Maintenance"
         ELSE "Improvement"

\* lines 1134-1147 and 1208-1221
applied_mode_label(liming_mode, current_ph, reference_ph, noun) ==
    IF liming_mode = "Automatic" THEN
        IF current_ph > reference_ph
        THEN IF noun = "optimal" THEN "None (pH above optimal)"
             ELSE "None (pH above target)"
        ELSE IF GeRefMinusTenth(current_ph, reference_ph) THEN "Maintenance"
        ELSE "Improvement"
    ELSE IF liming_mode = "pH Maintenance" THEN
        IF current_ph >= reference_ph
        THEN IF noun = "optimal" THEN "None (pH at/above optimal)"
             ELSE "None (pH at/above target)"
        ELSE "Maintenance"
    ELSE "Improvement"

\* the cap test with the comparison turned round: doses below the maximum
\* would be raised to it
below_max_rate(lime_req, max_rate) ==
    ~IsNone(max_rate) /\ lime_req < Val(max_rate)

\* lines 1166 and 1242: max_rate is not None and lime_req > max_rate
exceeds_max_rate(lime_req, max_rate) ==
    ~IsNone(max_rate) /\ lime_req > Val(max_rate)

\* a target that is the reference pH in every mode
reference_target_ph(liming_mode, current_ph, reference_ph) == reference_ph

\* lines 1159-1164 and 1235-1240: the target pH of an uncapped dose
mode_target_ph(liming_mode, current_ph, reference_ph) ==
    IF liming_mode = "pH Maintenance" THEN current_ph ELSE reference_ph

\* LimingPrescription._calculate_vdlufa_prescription
calculate_vdlufa_prescription(sample, params) ==
    IF IsNone(sample.ph_value) THEN NoFrame
    ELSE
    LET current_ph == Val(sample.ph_value)
        soil_texture == IF sample.soil_texture = NoneStr
                        THEN params.default_soil_texture
                        ELSE sample.soil_texture
        crop_type == params.crop_type
        lime_type == params.lime_type
        max_rate == params.max_application_rate
        liming_mode == params.liming_mode
        mapped_texture == map_soil_texture(soil_texture)
        optimal_ph == get_optimal_ph(mapped_texture, crop_type)
        applied_mode == applied_mode_label(liming_mode, current_ph, optimal_ph,
                                           "optimal")
        caco3_loss == IF liming_mode \in {"pH Maintenance", "Automatic"}
                      THEN sample.caco3_loss_kg_ha ELSE None
        req == vdlufa_calculate_lime_requirement(current_ph, soil_texture,
                   crop_type, lime_type, liming_mode, caco3_loss, params.nv)
        lime_req == req.value
        target_ph == mode_target_ph(liming_mode, current_ph, optimal_ph)
    IN  IF req.raised
        THEN Frame(TRUE, 0, applied_mode, None, FALSE, 0, soil_texture,
                   Some(optimal_ph), caco3_loss)
        ELSE IF exceeds_max_rate(lime_req, max_rate)
        THEN Frame(FALSE, Val(max_rate), applied_mode,
                   Some(IF liming_mode # "pH Maintenance"
                        THEN vdlufa_reverse_calculate_ph(Val(max_rate), soil_texture,
                                 crop_type, lime_type, current_ph)
                        ELSE target_ph),
                   TRUE, lime_req, soil_texture, Some(optimal_ph), caco3_loss)
        ELSE Frame(FALSE, lime_req, applied_mode, Some(target_ph), FALSE, lime_req,
                   soil_texture, Some(optimal_ph), caco3_loss)

\* LimingPrescription._calculate_cec_prescription
calculate_cec_prescription(sample, params) ==
    IF IsNone(sample.ph_value) \/ IsNone(params.fine_dry_soil) \/ IsNone(params.nv)
    THEN NoFrame
    ELSE
    LET current_ph == Val(sample.ph_value)
        target_ph == params.target_ph
        soil_texture == sample.soil_texture
        max_rate == params.max_application_rate
        cec_soil == IF soil_texture # NoneStr /\ soil_texture # ""
                    THEN get_cec_for_texture(soil_texture)
                    ELSE params.cec_soil
        fine_dry_soil == Val(params.fine_dry_soil)
        nv == Val(params.nv)
        dose == params.dose
        liming_mode == params.liming_mode
        applied_mode == applied_mode_label(liming_mode, current_ph, target_ph,
                                           "target")
        caco3_loss == IF liming_mode \in {"pH Maintenance", "Automatic"}
                      THEN sample.caco3_loss_kg_ha ELSE None
        req == cec_calculate_lime_requirement(current_ph, target_ph, cec_soil,
                   fine_dry_soil, nv, dose, params.s_cec_percentage,
                   params.modified_s_cec, liming_mode, caco3_loss)
        lime_req == req.value
        achieved_target_ph == mode_target_ph(liming_mode, current_ph, target_ph)
        reversed == cec_reverse_calculate_ph(Val(max_rate), current_ph, cec_soil,
                                             fine_dry_soil, nv, dose)
    IN  IF req.raised
        THEN Frame(TRUE, 0, applied_mode, None, FALSE, 0, soil_texture,
                   Some(target_ph), caco3_loss)
        ELSE IF exceeds_max_rate(lime_req, max_rate)
        THEN IF liming_mode # "pH Maintenance"
             THEN Frame(reversed.raised, Val(max_rate), applied_mode,
                        Some(reversed.value), TRUE, lime_req, soil_texture,
                        Some(target_ph), caco3_loss)
             ELSE Frame(FALSE, Val(max_rate), applied_mode, Some(achieved_target_ph),
                        TRUE, lime_req, soil_texture, Some(target_ph), caco3_loss)
        ELSE Frame(FALSE, lime_req, applied_mode, Some(achieved_target_ph), FALSE,
                   lime_req, soil_texture, Some(target_ph), caco3_loss)

\* lines 1008-1022: the texture the result reports and the loss model uses
actual_texture_used(sample, params, method_name) ==
    LET original_texture == sample.soil_texture
    IN  IF method_name = "VDLUFA" THEN
            IF original_texture = NoneStr THEN params.default_soil_texture
            ELSE IF map_soil_texture(original_texture) \notin {NoneStr, ""}
                 THEN map_soil_texture(original_texture)
                 ELSE params.default_soil_texture
        ELSE IF original_texture = NoneStr THEN params.default_soil_texture
             ELSE convert_to_usda_texture(original_texture)

\* lines 1037-1061: annual_rainfall_mm (a lookup returning None or 0 counts
\* as no rainfall for the loss)
annual_rainfall_of(sample) ==
    IF IsNone(sample.boundary) THEN None
    ELSE get_rainfall_from_geometry(Val(sample.boundary))

\* a loss model that assumes 700 mm of rain when the lookup gives nothing
caco3_loss_of_assumed_rain(sample, params, method_name) ==
    LET rain == annual_rainfall_of(sample)
        texture == actual_texture_used(sample, params, method_name)
    IN  IF texture \in {NoneStr, ""} THEN None
        ELSE IF IsNone(sample.ph_value) \/ Val(sample.ph_value) = 0 THEN None
        ELSE calculate_caco3_loss(IF IsNone(rain) THEN 700 ELSE Val(rain),
                                  texture, Val(sample.ph_value), method_name)

\* lines 1043-1055: caco3_loss_data.get('caco3_loss'), or None
caco3_loss_of(sample, params, method_name) ==
    LET rain == annual_rainfall_of(sample)
        texture == actual_texture_used(sample, params, method_name)
    IN  IF IsNone(rain) \/ Val(rain) = 0 THEN None
        ELSE IF texture \in {NoneStr, ""} THEN None
        ELSE IF IsNone(sample.ph_value) \/ Val(sample.ph_value) = 0 THEN None
        ELSE calculate_caco3_loss(Val(rain), texture, Val(sample.ph_value),
                                  method_name)

\* lines 1069-1077: the prescription of one sample
prescription_of(sample, params, method_name) ==
    LET sample_with_caco3 ==
            [ph_value |-> sample.ph_value, soil_texture |-> sample.soil_texture,
             caco3_loss_kg_ha |-> caco3_loss_of(sample, params, method_name)]
    IN  IF method_name = "VDLUFA"
        THEN calculate_vdlufa_prescription(sample_with_caco3, params)
        ELSE calculate_cec_prescription(sample_with_caco3, params)

\* round(lime_requirement, 2), dose in 0.001 kg/ha
Round2(x) == ((x + 5) \div 10) * 10

\* lines 1080-1100: the result dict (the fields the model follows)
result_of(sample, params, method_name, f) ==
    [sample_id |-> sample.id,
     zone_area |-> sample.area,
     current_ph |-> sample.ph_value,
     target_ph |-> f.target_ph,
     was_capped |-> f.was_capped,
     soil_texture |-> actual_texture_used(sample, params, method_name),
     original_soil_texture |-> sample.soil_texture,
     lime_requirement_kg_ha |-> Round2(f.lime_req),
     applied_mode |-> f.applied_mode,
     annual_rainfall_mm |-> annual_rainfall_of(sample),
     caco3_loss_kg_ha_year |-> caco3_loss_of(sample, params, method_name)]

(***************************************************************************)
(* calculate_prescription as a state machine: one step per sample of the   *)
(* loop at line 1006; an exception raised in the loop body leaves the      *)
(* function (no handler in calculate_prescription)                         *)
(***************************************************************************)
PhValues == {390, 400, 500, 510, 520, 580, 585, 590, 600, 640, 645, 650, 660,
             710, 730}

SampleTextures == {NoneStr, "Sand", "sandy loam", "Toniger Lehm b.Ton", "Bog",
                   "Loam", "Peat"}

\* Point geometries: one inside the rainfall data, one outside
Boundaries ==
    {None, Some(Geometry("Point", <<<<12101, 49002>>>>, TRUE)),
     Some(Geometry("Point", <<<<0, 0>>>>, TRUE))}

Samples ==
    [id : {"s1"},
     area : {None},
     ph_value : {None} \cup {Some(p) : p \in PhValues},
     soil_texture : SampleTextures,
     boundary : Boundaries]

VdlufaParams ==
    [crop_type : CROP_TYPES,
     lime_type : {"CaCO3", "CaO"},
     liming_mode : LIMING_MODES,
     default_soil_texture : {"Sandiger Schl Lehm", "Sand"},
     max_application_rate : {None, Some(1680672), Some(100000)},
     nv : {100, 53},
     target_ph : {650}, fine_dry_soil : {None}, dose : {10}, cec_soil : {15},
     s_cec_percentage : {None}, modified_s_cec : {None}]

CecParams ==
    [crop_type : {"Standard crops"}, lime_type : {"CaCO3"},
     liming_mode : LIMING_MODES,
     default_soil_texture : {"Sandy Loam"},
     max_application_rate : {None, Some(1000000), Some(100000)},
     nv : {None, Some(53), Some(0)},
     target_ph : {650, 590},
     fine_dry_soil : {Some(1500)},
     dose : {10},
     cec_soil : {15},
     s_cec_percentage : {None, Some(60)},
     modified_s_cec : {None, Some(40)}]

NoCall == [fn |-> "none"]

InitWith(m, params, batch) ==
    /\ method = m
    /\ method_params = params
    /\ soil_data = batch
    /\ results = <<>>
    /\ pc = "loop"
    /\ frame = NoFrame
    /\ rainfall_cache = <<>>
    /\ lookups = <<>>
    /\ call = NoCall
    /\ ret = NoCall

\* LimingPrescription(method).calculate_prescription([sample], method_params)
Init ==
    \/ \E params \in VdlufaParams, s \in Samples : InitWith("VDLUFA", params, <<s>>)
    \/ \E params \in CecParams, s \in Samples : InitWith("CEC", params, <<s>>)

NextSample == soil_data[Len(results) + 1]

\* a loop body that puts the new result in front of the list
ProcessSamplePrepending ==
    /\ pc = "loop"
    /\ Len(results) < Len(soil_data)
    /\ LET f == prescription_of(NextSample, method_params, method)
       IN  /\ ~f.raised
           /\ frame' = f
           /\ results' = <<result_of(NextSample, method_params, method, f)>>
                            \o results
    /\ rainfall_cache' = cache_after(rainfall_cache, NextSample.boundary)
    /\ lookups' = lookups_after(rainfall_cache, lookups, NextSample.boundary)
    /\ UNCHANGED <<method, method_params, soil_data, pc, call, ret>>

\* one pass of the loop body, lines 1006-1102
ProcessSample ==
    /\ pc = "loop"
    /\ Len(results) < Len(soil_data)
    /\ LET f == prescription_of(NextSample, method_params, method)
       IN  /\ ~f.raised
           /\ frame' = f
           /\ results' = Append(results,
                                result_of(NextSample, method_params, method, f))
    /\ rainfall_cache' = cache_after(rainfall_cache, NextSample.boundary)
    /\ lookups' = lookups_after(rainfall_cache, lookups, NextSample.boundary)
    /\ UNCHANGED <<method, method_params, soil_data, pc, call, ret>>

\* the loop body raises: the exception leaves calculate_prescription
SampleRaises ==
    /\ pc = "loop"
    /\ Len(results) < Len(soil_data)
    /\ LET f == prescription_of(NextSample, method_params, method)
       IN  /\ f.raised
           /\ frame' = f
    /\ pc' = "raised"
    /\ rainfall_cache' = cache_after(rainfall_cache, NextSample.boundary)
    /\ lookups' = lookups_after(rainfall_cache, lookups, NextSample.boundary)
    /\ UNCHANGED <<method, method_params, soil_data, results, call, ret>>

\* line 1104: return results
Return ==
    /\ pc = "loop"
    /\ Len(results) = Len(soil_data)
    /\ pc' = "returned"
    /\ UNCHANGED <<method, method_params, soil_data, results, frame, call, ret, rainfall_cache, lookups>>

Next == ProcessSample \/ SampleRaises \/ Return

Spec == Init /\ [][Next]_vars

(***************************************************************************)
(* Batches: small parameter and sample sets, up to MaxBatch samples         *)
(***************************************************************************)
MaxBatch == 3

BatchSamples ==
    [id : {"a", "b"},
     area : {None},
     ph_value : {None, Some(580), Some(660)},
     soil_texture : {"Sand"},
     boundary : {None, Some(Geometry("Point", <<<<12101, 49002>>>>, TRUE))}]

BatchParams ==
    [crop_type : {"Standard crops"}, lime_type : {"CaCO3"},
     liming_mode : {"pH Improvement", "pH Maintenance"},
     default_soil_texture : {"Sandy Loam"},
     max_application_rate : {None},
     nv : {Some(53), Some(0)},
     target_ph : {650},
     fine_dry_soil : {Some(1500)},
     dose : {10},
     cec_soil : {15},
     s_cec_percentage : {None},
     modified_s_cec : {None}]

VdlufaBatchParams ==
    [crop_type : {"Standard crops"}, lime_type : {"CaCO3"},
     liming_mode : {"pH Improvement", "pH Maintenance"},
     default_soil_texture : {"Sand"},
     max_application_rate : {None},
     nv : {53},
     target_ph : {650}, fine_dry_soil : {None}, dose : {10}, cec_soil : {15},
     s_cec_percentage : {None}, modified_s_cec : {None}]

Batches == UNION {[1..n -> BatchSamples] : n \in 0..MaxBatch}

InitBatch ==
    \/ \E params \in BatchParams, batch \in Batches :
            InitWith("CEC", params, batch)
    \/ \E params \in VdlufaBatchParams, batch \in Batches :
            InitWith("VDLUFA", params, batch)

SpecBatch == InitBatch /\ [][Next]_vars

(***************************************************************************)
(* Direct calls of the calculators' calculate_lime_requirement             *)
(***************************************************************************)
LossValues == {None, Some(0), Some(1300), Some(2099)}

VdlufaCalls ==
    [fn : {"vdlufa"},
     current_ph : PhValues,
     soil_texture : {"Sand", "sandy loam", "Toniger Lehm b.Ton", "Bog", "Loam",
                     NoneStr},
     crop_type : CROP_TYPES,
     lime_type : {"CaO", "CaCO3", "Omya_Calciprill"},
     liming_mode : LIMING_MODES,
     caco3_loss_kg_ha : LossValues,
     nv : {100, 53, 0}]

CecCalls ==
    [fn : {"cec"},
     current_ph : PhValues,
     target_ph : {650, 590},
     cec_soil : {10, 15},
     fine_dry_soil : {1500},
     nv : {53, 100, 0},
     dose : {10, 0},
     s_cec_percentage : {None, Some(60)},
     modified_s_cec : {None, Some(40), Some(60)},
     liming_mode : LIMING_MODES,
     caco3_loss_kg_ha : LossValues]

InitCalc ==
    /\ call \in VdlufaCalls \cup CecCalls
    /\ ret = NoCall
    /\ pc = "call"
    /\ method = "" /\ method_params = <<>> /\ soil_data = <<>> /\ results = <<>>
    /\ frame = NoFrame
    /\ rainfall_cache = <<>>
    /\ lookups = <<>>

\* VDLUFACalculator.calculate_lime_requirement(...)
VdlufaCalculate ==
    /\ pc = "call"
    /\ call.fn = "vdlufa"
    /\ ret' = vdlufa_calculate_lime_requirement(call.current_ph, call.soil_texture,
                  call.crop_type, call.lime_type, call.liming_mode,
                  call.caco3_loss_kg_ha, call.nv)
    /\ pc' = "ret"
    /\ UNCHANGED <<method, method_params, soil_data, results, frame, call, rainfall_cache, lookups>>

\* CECCalculator.calculate_lime_requirement(...)
CecCalculate ==
    /\ pc = "call"
    /\ call.fn = "cec"
    /\ ret' = cec_calculate_lime_requirement(call.current_ph, call.target_ph,
                  call.cec_soil, call.fine_dry_soil, call.nv, call.dose,
                  call.s_cec_percentage, call.modified_s_cec, call.liming_mode,
                  call.caco3_loss_kg_ha)
    /\ pc' = "ret"
    /\ UNCHANGED <<method, method_params, soil_data, results, frame, call, rainfall_cache, lookups>>

NextCalc == VdlufaCalculate \/ CecCalculate

SpecCalc == InitCalc /\ [][NextCalc]_vars

(***************************************************************************)
(* The forward curve evaluated at two pH values of one texture and crop     *)
(***************************************************************************)
CurvePhValues == {10 * k : k \in 30..80} \cup {399, 575, 605}

CurveCalls ==
    {c \in [fn : {"curve"}, ph : CurvePhValues, ph2 : CurvePhValues,
            soil_texture : SOIL_TEXTURES \cup {NoneStr, "Stark Lehm Sand"},
            crop_type : CROP_TYPES] : c.ph <= c.ph2}

InitCurve ==
    /\ call \in CurveCalls
    /\ ret = NoCall
    /\ pc = "call"
    /\ method = "" /\ method_params = <<>> /\ soil_data = <<>> /\ results = <<>>
    /\ frame = NoFrame
    /\ rainfall_cache = <<>>
    /\ lookups = <<>>

\* _calculate_standard_crops / _calculate_other_crops at ph and at ph2, and
\* _get_optimal_ph
EvalCurve ==
    /\ pc = "call"
    /\ call.fn = "curve"
    /\ ret' = [dose |-> forward_cao_dt_ha(call.ph, call.soil_texture, call.crop_type),
               dose2 |-> forward_cao_dt_ha(call.ph2, call.soil_texture,
                                           call.crop_type),
               optimal_ph |-> get_optimal_ph(call.soil_texture, call.crop_type)]
    /\ pc' = "ret"
    /\ UNCHANGED <<method, method_params, soil_data, results, frame, call, rainfall_cache, lookups>>

NextCurve == EvalCurve

SpecCurve == InitCurve /\ [][NextCurve]_vars

(***************************************************************************)
(* Direct calls of the inverse functions (reverse_calculate_ph), and the   *)
(* CEC forward formula followed by its inverse                             *)
(***************************************************************************)
CecReverseCalls ==
    [fn : {"cec_reverse"},
     lime_kg_ha : {-1000, 0, 1000000},
     current_ph : {500, 580},
     cec_soil : {0, 15},
     fine_dry_soil : {0, 1500},
     nv : {0, 53},
     dose : {0, 10}]

VdlufaReverseCalls ==
    [fn : {"vdlufa_reverse"},
     lime_kg_ha : {0, 500000, 100000000},
     soil_texture : {"Sand", "Toniger Lehm b.Ton", "Bog"},
     crop_type : CROP_TYPES,
     lime_type : {"CaO", "CaCO3"},
     current_ph : {500, 580, 590, 650, 740}]

RoundTripCalls ==
    [fn : {"cec_round_trip"},
     current_ph : {500, 580, 645},
     target_ph : {590, 650, 700},
     cec_soil : {5, 15, 40},
     fine_dry_soil : {1000, 1500},
     nv : {53, 100},
     dose : {5, 10, 20}]

InitInverse ==
    /\ call \in CecReverseCalls \cup VdlufaReverseCalls \cup RoundTripCalls
    /\ ret = NoCall
    /\ pc = "call"
    /\ method = "" /\ method_params = <<>> /\ soil_data = <<>> /\ results = <<>>
    /\ frame = NoFrame
    /\ rainfall_cache = <<>>
    /\ lookups = <<>>

\* CECCalculator.reverse_calculate_ph(...)
CecReverse ==
    /\ pc = "call"
    /\ call.fn = "cec_reverse"
    /\ ret' = cec_reverse_calculate_ph(call.lime_kg_ha, call.current_ph,
                  call.cec_soil, call.fine_dry_soil, call.nv, call.dose)
    /\ pc' = "ret"
    /\ UNCHANGED <<method, method_params, soil_data, results, frame, call, rainfall_cache, lookups>>

\* VDLUFACalculator.reverse_calculate_ph(..., current_ph)
VdlufaReverse ==
    /\ pc = "call"
    /\ call.fn = "vdlufa_reverse"
    /\ ret' = Returned(vdlufa_reverse_calculate_ph(call.lime_kg_ha,
                  call.soil_texture, call.crop_type, call.lime_type,
                  call.current_ph))
    /\ pc' = "ret"
    /\ UNCHANGED <<method, method_params, soil_data, results, frame, call, rainfall_cache, lookups>>

\* lime = _calculate_standard(current, target, ...);
\* reverse_calculate_ph(lime, current, ...)
CecRoundTrip ==
    /\ pc = "call"
    /\ call.fn = "cec_round_trip"
    /\ LET forward == cec_calculate_standard(call.current_ph, call.target_ph,
                          call.cec_soil, call.fine_dry_soil, call.nv, call.dose)
       IN  ret' = [forward |-> forward,
                   reversed |-> IF forward.raised THEN Raised
                                ELSE cec_reverse_calculate_ph(forward.value,
                                         call.current_ph, call.cec_soil,
                                         call.fine_dry_soil, call.nv, call.dose)]
    /\ pc' = "ret"
    /\ UNCHANGED <<method, method_params, soil_data, results, frame, call, rainfall_cache, lookups>>

NextInverse == CecReverse \/ VdlufaReverse \/ CecRoundTrip

SpecInverse == InitInverse /\ [][NextInverse]_vars

(***************************************************************************)
(* Texture resolution of one sample: map_soil_texture,                     *)
(* convert_to_usda_texture and the texture calculate_prescription reports  *)
(***************************************************************************)
TextureCalls ==
    [fn : {"texture"},
     api_texture : RawTextures \cup {NoneStr},
     method_name : {"VDLUFA", "CEC"},
     default_soil_texture : {"Sandiger Schl Lehm", "Sand", "Sandy Loam"}]

InitTexture ==
    /\ call \in TextureCalls
    /\ ret = NoCall
    /\ pc = "call"
    /\ method = "" /\ method_params = <<>> /\ soil_data = <<>> /\ results = <<>>
    /\ frame = NoFrame
    /\ rainfall_cache = <<>>
    /\ lookups = <<>>

\* lines 1008-1022 for a sample carrying api_texture
ResolveTexture ==
    /\ pc = "call"
    /\ call.fn = "texture"
    /\ ret' = [mapped |-> map_soil_texture(call.api_texture),
               usda |-> convert_to_usda_texture(call.api_texture),
               actual |-> actual_texture_used(
                              [soil_texture |-> call.api_texture],
                              [default_soil_texture |-> call.default_soil_texture],
                              call.method_name)]
    /\ pc' = "ret"
    /\ UNCHANGED <<method, method_params, soil_data, results, frame, call, rainfall_cache, lookups>>

NextTexture == ResolveTexture

SpecTexture == InitTexture /\ [][NextTexture]_vars

(***************************************************************************)
(* calculate_prescription on one sample whose boundary is any kind of      *)
(* geometry, usable or not                                                 *)
(***************************************************************************)
RainBoundaries ==
    {None,
     Some(Geometry("Point", <<<<12101, 49002>>>>, TRUE)),
     Some(Geometry("Point", <<<<0, 0>>>>, TRUE)),
     Some(Geometry("Polygon", <<<<12090, 48990>>, <<12110, 48990>>,
                                <<12110, 49010>>, <<12090, 49010>>,
                                <<12090, 48990>>>>, TRUE)),
     Some(Geometry("Polygon", <<>>, TRUE)),
     Some(Geometry("Point", <<>>, TRUE)),
     Some(Geometry("LineString", <<<<12101, 49002>>, <<12102, 49003>>>>, TRUE)),
     Some(Geometry("Point", <<<<12101, 49002>>>>, FALSE)),
     Some(Geometry("MultiPolygon", <<<<12101, 49002>>>>, FALSE))}

RainSamples ==
    [id : {"s1"},
     area : {None},
     ph_value : {None, Some(580), Some(650)},
     soil_texture : {NoneStr, "Sand", "Bog"},
     boundary : RainBoundaries]

InitRain ==
    \/ \E params \in BatchParams, s \in RainSamples :
            InitWith("CEC", params, <<s>>)
    \/ \E params \in VdlufaBatchParams, s \in RainSamples :
            InitWith("VDLUFA", params, <<s>>)

SpecRain == InitRain /\ [][Next]_vars

(***************************************************************************)
(* get_rainfall_from_geometry called for a sequence of geometries, one     *)
(* process, the cache empty at the start.  The rainfall source is the      *)
(* environment: on each run of the body of get_annual_rainfall it gives    *)
(* the rainfall of RAINFALL_DATA, or nothing (point outside the data,      *)
(* 'NoData', a failed request: the body returns None), or a reply that is  *)
(* JSON but not an object (data.get raises AttributeError, which the body  *)
(* does not catch).                                                        *)
(***************************************************************************)
MaxLookups == 3

LookupGeometries ==
    {Geometry("Point", <<<<12101, 49002>>>>, TRUE),
     Geometry("Point", <<<<12104, 48998>>>>, TRUE),
     Geometry("Polygon", <<<<12090, 48990>>, <<12110, 48990>>,
                           <<12110, 49010>>, <<12090, 49010>>,
                           <<12090, 48990>>>>, TRUE),
     Geometry("Point", <<<<13400, 52500>>>>, TRUE),
     Geometry("Point", <<<<0, 0>>>>, TRUE),
     Geometry("LineString", <<<<12101, 49002>>, <<12102, 49003>>>>, TRUE)}

LookupCalls ==
    [fn : {"rainfall"},
     geometries : UNION {[1..n -> LookupGeometries] : n \in 0..MaxLookups}]

InitLookup ==
    /\ call \in LookupCalls
    /\ ret = <<>>
    /\ pc = "call"
    /\ method = "" /\ method_params = <<>> /\ soil_data = <<>> /\ results = <<>>
    /\ frame = NoFrame
    /\ rainfall_cache = <<>>
    /\ lookups = <<>>

NextGeometry == call.geometries[Len(ret) + 1]

\* what the body of get_annual_rainfall can return for a coordinate
BodyReturns(key) == {get_annual_rainfall(key[1], key[2]), None}

\* get_rainfall_from_geometry returns before get_annual_rainfall is called
\* (lines 208-210, or the handler at 219-221)
RainfallNoCentroid ==
    /\ pc = "call"
    /\ Len(ret) < Len(call.geometries)
    /\ IsNone(lookup_key(NextGeometry))
    /\ ret' = Append(ret, None)
    /\ UNCHANGED <<method, method_params, soil_data, results, pc, frame, call, rainfall_cache, lookups>>

\* line 217, the coordinate is in the cache: the body does not run
RainfallCached ==
    /\ pc = "call"
    /\ Len(ret) < Len(call.geometries)
    /\ ~IsNone(lookup_key(NextGeometry))
    /\ LET key == Val(lookup_key(NextGeometry))
       IN  /\ key \in CacheKeys(rainfall_cache)
           /\ ret' = Append(ret, CacheValue(rainfall_cache, key))
           /\ rainfall_cache' = CacheTouch(rainfall_cache, key)
    /\ UNCHANGED <<method, method_params, soil_data, results, pc, frame, call, lookups>>

\* line 217, a miss: the body runs and returns, the result is cached
RainfallLookup ==
    /\ pc = "call"
    /\ Len(ret) < Len(call.geometries)
    /\ ~IsNone(lookup_key(NextGeometry))
    /\ LET key == Val(lookup_key(NextGeometry))
       IN  /\ key \notin CacheKeys(rainfall_cache)
           /\ \E value \in BodyReturns(key) :
                /\ ret' = Append(ret, value)
                /\ rainfall_cache' = CacheStore(rainfall_cache, key, value)
           /\ lookups' = Append(lookups, key)
    /\ UNCHANGED <<method, method_params, soil_data, results, pc, frame, call>>

\* line 217, a miss: the body runs and raises at line 171; lru_cache stores
\* nothing and the handler at lines 219-221 returns None
RainfallLookupRaises ==
    /\ pc = "call"
    /\ Len(ret) < Len(call.geometries)
    /\ ~IsNone(lookup_key(NextGeometry))
    /\ LET key == Val(lookup_key(NextGeometry))
       IN  /\ key \notin CacheKeys(rainfall_cache)
           /\ ret' = Append(ret, None)
           /\ lookups' = Append(lookups, key)
    /\ UNCHANGED <<method, method_params, soil_data, results, pc, frame, call, rainfall_cache>>

NextLookup ==
    RainfallNoCentroid \/ RainfallCached \/ RainfallLookup \/ RainfallLookupRaises

SpecLookup == InitLookup /\ [][NextLookup]_vars

(***************************************************************************)
(* Direct calls of calculate_caco3_loss                                    *)
(***************************************************************************)
LossCalls ==
    [fn : {"caco3_loss"},
     precipitation_mm : {658, 800, 1200},
     soil_texture : DOMAIN VDLUFA_TEXTURE_TO_CLAY \cup DOMAIN CEC_TEXTURE_TO_CLAY
                    \cup {"Peat", "Stark Lehm Sand", "SAND", ""},
     ph : {500, 580, 650, 730},
     method_name : {"VDLUFA", "CEC"}]

InitLoss ==
    /\ call \in LossCalls
    /\ ret = NoCall
    /\ pc = "call"
    /\ method = "" /\ method_params = <<>> /\ soil_data = <<>> /\ results = <<>>
    /\ frame = NoFrame
    /\ rainfall_cache = <<>>
    /\ lookups = <<>>

\* calculate_caco3_loss(precipitation_mm, soil_texture, ph, method)
CalculateLoss ==
    /\ pc = "call"
    /\ call.fn = "caco3_loss"
    /\ ret' = calculate_caco3_loss(call.precipitation_mm, call.soil_texture,
                                   call.ph, call.method_name)
    /\ pc' = "ret"
    /\ UNCHANGED <<method, method_params, soil_data, results, frame, call, rainfall_cache, lookups>>

NextLoss == CalculateLoss

SpecLoss == InitLoss /\ [][NextLoss]_vars

(***************************************************************************)
(* api/liming.py: the endpoints /calculate/vdlufa and /calculate/cec.  The *)
(* request has passed the schema (every sample has a pH, area is           *)
(* optional); the endpoint runs calculate_prescription and summarises, or  *)
(* answers HTTP 500 when it raised.  Areas are in 0.01 ha.                 *)
(***************************************************************************)
ApiSamples ==
    [id : {"a"},
     area : {None, Some(1050), Some(225)},
     ph_value : {Some(500), Some(660)},
     soil_texture : {"Sand"},
     boundary : {None}]

\* VDLUFACalculationRequest: the endpoint passes no nv, so nv is 100
ApiVdlufaRequests ==
    [crop_type : {"Standard crops"}, lime_type : {"CaCO3"},
     liming_mode : {"pH Improvement", "pH Maintenance"},
     default_soil_texture : {"Sand"},
     max_application_rate : {None, Some(100000)},
     nv : {100},
     target_ph : {650}, fine_dry_soil : {None}, dose : {10}, cec_soil : {15},
     s_cec_percentage : {None}, modified_s_cec : {None}]

ApiBatches == UNION {[1..n -> ApiSamples] : n \in 0..MaxBatch}

InitApi ==
    \/ \E params \in BatchParams, batch \in ApiBatches :
            InitWith("CEC", params, batch)
    \/ \E params \in ApiVdlufaRequests, batch \in ApiBatches :
            InitWith("VDLUFA", params, batch)

\* sum(r.get('zone_area', 0) or 0 for r in results)
RECURSIVE total_area(_)
total_area(rs) ==
    IF rs = <<>> THEN 0
    ELSE (IF IsNone(Head(rs).zone_area) THEN 0 ELSE Val(Head(rs).zone_area))
         + total_area(Tail(rs))

\* sum(r['lime_requirement_kg_ha'] for r in results)
RECURSIVE total_lime(_)
total_lime(rs) ==
    IF rs = <<>> THEN 0 ELSE Head(rs).lime_requirement_kg_ha + total_lime(Tail(rs))

\* a mean over the samples that got lime
average_lime_of_limed(rs) ==
    LET n == Cardinality({i \in DOMAIN rs : rs[i].lime_requirement_kg_ha > 0})
    IN  IF n = 0 THEN 0
        ELSE ((2 * (total_lime(rs) \div 10) + n) \div (2 * n)) * 10

\* round(sum(...) / len(results) if results else 0, 2), in 0.001 kg/ha (the
\* doses summed are multiples of 0.01 kg/ha)
average_lime_kg_ha(rs) ==
    IF rs = <<>> THEN 0
    ELSE ((2 * (total_lime(rs) \div 10) + Len(rs)) \div (2 * Len(rs))) * 10

\* lines 69-84 and 148-162: the summary of the response
Summarise ==
    /\ pc = "returned"
    /\ ret' = [total_samples |-> Len(results),
               total_area |-> total_area(results),
               average_lime_kg_ha |-> average_lime_kg_ha(results)]
    /\ pc' = "responded"
    /\ UNCHANGED <<method, method_params, soil_data, results, frame, call, rainfall_cache, lookups>>

\* lines 86-90 and 164-168: HTTPException(status_code=500)
Fail ==
    /\ pc = "raised"
    /\ ret' = [status_code |-> 500]
    /\ pc' = "failed"
    /\ UNCHANGED <<method, method_params, soil_data, results, frame, call, rainfall_cache, lookups>>

NextApi == Next \/ Summarise \/ Fail

SpecApi == InitApi /\ [][NextApi]_vars

(***************************************************************************)
(* get_bicarbonate_factor evaluated at two pH values, 0 <= ph <= ph2 <= 14 *)
(***************************************************************************)
BicarbonateCalls ==
    {c \in [fn : {"bicarbonate"}, ph : 0..1400, ph2 : 0..1400] :
        c.ph2 - c.ph \in {0, 1, 10, 50}}

InitBicarbonate ==
    /\ call \in BicarbonateCalls
    /\ ret = NoCall
    /\ pc = "call"
    /\ method = "" /\ method_params = <<>> /\ soil_data = <<>> /\ results = <<>>
    /\ frame = NoFrame
    /\ rainfall_cache = <<>>
    /\ lookups = <<>>

\* get_bicarbonate_factor(ph), get_bicarbonate_factor(ph2)
EvalBicarbonate ==
    /\ pc = "call"
    /\ call.fn = "bicarbonate"
    /\ ret' = [factor |-> get_bicarbonate_factor(call.ph),
               factor2 |-> get_bicarbonate_factor(call.ph2)]
    /\ pc' = "ret"
    /\ UNCHANGED <<method, method_params, soil_data, results, frame, call, rainfall_cache, lookups>>

NextBicarbonate == EvalBicarbonate

SpecBicarbonate == InitBicarbonate /\ [][NextBicarbonate]_vars

(***************************************************************************)
(* Properties                                                              *)
(***************************************************************************)
\* a sample has been through the loop body; frame and the last result are its
Processed == pc \in {"loop", "returned"} /\ Len(results) > 0
LastResult == results[Len(results)]
LastSample == soil_data[Len(results)]

\* the NV the calculator was given
ParamNv == IF method = "VDLUFA" THEN method_params.nv ELSE Val(method_params.nv)

\* (L / 1.785) * (100 / NV) for a loss L in 0.1 kg/ha, in 0.001 kg/ha
ChainDose(loss, nv) == MulDiv(MulDiv(loss * 100, 1000, 1785), 100, nv)
\* L * (100 / NV)
DirectDose(loss, nv) == MulDiv(loss * 100, 100, nv)

\* the reference pH of a direct calculator call
ReferencePh(c) ==
    IF c.fn = "vdlufa"
    THEN get_optimal_ph(map_soil_texture(c.soil_texture), c.crop_type)
    ELSE c.target_ph

\* C1: capping invariant, both methods, every mode.  With a maximum rate
\* configured and the nominal dose above it, the dose returned by
\* _calculate_*_prescription is the maximum rate and was_capped is true; with
\* no maximum or a nominal dose at or below it, was_capped is false and the
\* dose is the nominal dose; so the dose never exceeds the nominal dose.  The
\* result carries the same was_capped and the dose rounded to 2 decimals.
C1_CappingInvariant ==
    Processed =>
        LET max_rate == method_params.max_application_rate
        IN  /\ (~IsNone(max_rate) /\ frame.nominal > Val(max_rate))
                => (frame.lime_req = Val(max_rate) /\ frame.was_capped)
            /\ (IsNone(max_rate) \/ frame.nominal <= Val(max_rate))
                => (frame.lime_req = frame.nominal /\ ~frame.was_capped)
            /\ frame.lime_req <= frame.nominal
            /\ LastResult.was_capped = frame.was_capped
            /\ LastResult.lime_requirement_kg_ha = Round2(frame.lime_req)

\* a capped sample: the nominal dose is above the configured maximum
C1_Witness ==
    /\ Processed
    /\ ~IsNone(method_params.max_application_rate)
    /\ frame.nominal > Val(method_params.max_application_rate)
    /\ frame.was_capped
    /\ frame.lime_req < frame.nominal

\* C2: in 'pH Maintenance' mode a calculator returns 0 whenever
\* current_ph >= reference pH, with or without a leaching loss, whatever its
\* value (and whatever NV).
C2_MaintenanceAtOrAboveReference ==
    (pc = "ret" /\ call.fn \in {"vdlufa", "cec"}
        /\ call.liming_mode = "pH Maintenance"
        /\ call.current_ph >= ReferencePh(call))
    => (~ret.raised /\ ret.value = 0)

\* pH exactly at the reference, a positive loss available, dose 0
C2_Witness ==
    /\ pc = "ret" /\ call.fn = "vdlufa"
    /\ call.liming_mode = "pH Maintenance"
    /\ call.current_ph = ReferencePh(call)
    /\ ~IsNone(call.caco3_loss_kg_ha) /\ Val(call.caco3_loss_kg_ha) > 0
    /\ call.nv > 0
    /\ ret.value = 0

\* C3: in 'pH Maintenance' mode below the reference pH the dose is a function
\* of the leaching loss and NV alone: 0 without a loss value, the converted
\* loss with one; the improvement dose never stands in.
C3_MaintenanceOnlyFromLoss ==
    (pc = "ret" /\ call.fn \in {"vdlufa", "cec"}
        /\ call.liming_mode = "pH Maintenance"
        /\ call.current_ph < ReferencePh(call))
    => IF IsNone(call.caco3_loss_kg_ha) THEN ~ret.raised /\ ret.value = 0
       ELSE call.nv # 0
            => (~ret.raised
                /\ ret.value = ChainDose(Val(call.caco3_loss_kg_ha), call.nv))

\* below the reference, no loss value, a positive improvement dose exists and
\* the maintenance dose is still 0
C3_Witness ==
    /\ pc = "ret" /\ call.fn = "vdlufa"
    /\ call.liming_mode = "pH Maintenance"
    /\ call.current_ph < ReferencePh(call)
    /\ IsNone(call.caco3_loss_kg_ha)
    /\ vdlufa_improvement(call.current_ph, map_soil_texture(call.soil_texture),
                          call.crop_type, call.lime_type) > 0
    /\ ret.value = 0

\* the cec_soil _calculate_cec_prescription uses for a sample
CecSoilOf(sample) ==
    IF sample.soil_texture # NoneStr /\ sample.soil_texture # ""
    THEN get_cec_for_texture(sample.soil_texture)
    ELSE method_params.cec_soil

\* the forward improvement dose of the last sample with target pH t
ForwardDose(t) ==
    IF method = "VDLUFA"
    THEN vdlufa_improvement(Val(LastSample.ph_value),
                            map_soil_texture(frame.soil_texture),
                            method_params.crop_type, method_params.lime_type)
    ELSE cec_forward(Val(LastSample.ph_value), t, CecSoilOf(LastSample),
                     Val(method_params.fine_dry_soil), Val(method_params.nv),
                     method_params.dose, method_params.s_cec_percentage,
                     method_params.modified_s_cec).value

\* C4: mode request 'Automatic', both calculators.  Above the reference pH:
\* dose 0, mode None.  From reference - 0.1 up to the reference: mode
\* Maintenance, and the dose is the converted leaching loss when a loss value
\* is available (CEC without a loss value: the forward formula with target
\* current_ph + 0.1).  Below: mode Improvement and the forward dose.
\* (`>= reference - 0.1` is evaluated as the program evaluates it.)
C4_AutomaticMode ==
    (Processed /\ method_params.liming_mode = "Automatic"
        /\ frame.applied_mode # "N/A")
    => LET ph == Val(LastSample.ph_value)
           ref == Val(frame.reference_ph)
           loss == frame.caco3_loss
       IN  IF ph > ref
           THEN /\ frame.nominal = 0
                /\ frame.applied_mode \in {"None (pH above optimal)",
                                           "None (pH above target)"}
           ELSE IF GeRefMinusTenth(ph, ref)
           THEN /\ frame.applied_mode = "Maintenance"
                /\ IF ~IsNone(loss)
                   THEN frame.nominal \in {ChainDose(Val(loss), ParamNv),
                                           DirectDose(Val(loss), ParamNv)}
                   ELSE method = "CEC" => frame.nominal = ForwardDose(ph + 10)
           ELSE /\ frame.applied_mode = "Improvement"
                /\ frame.nominal = ForwardDose(ref)

\* C5: every calculator path that turns a leaching loss L into a product dose
\* ('pH Maintenance' below the reference; the Maintenance band of 'Automatic')
\* computes (L / 1.785) * (100 / NV), never L * (100 / NV).
C5_TwoStepChain ==
    (pc = "ret" /\ call.fn \in {"vdlufa", "cec"}
        /\ ~IsNone(call.caco3_loss_kg_ha) /\ call.nv # 0
        /\ \/ /\ call.liming_mode = "pH Maintenance"
              /\ call.current_ph < ReferencePh(call)
           \/ /\ call.fn = "cec"
              /\ call.liming_mode = "Automatic"
              /\ call.current_ph <= ReferencePh(call)
              /\ GeRefMinusTenth(call.current_ph, ReferencePh(call)))
    => (~ret.raised
        /\ ret.value = ChainDose(Val(call.caco3_loss_kg_ha), call.nv))

\* a CEC 'pH Maintenance' call below the target with a loss value
CecMaintenanceCall ==
    /\ pc = "ret" /\ call.fn = "cec"
    /\ call.liming_mode = "pH Maintenance"
    /\ call.current_ph < call.target_ph
    /\ ~IsNone(call.caco3_loss_kg_ha) /\ call.nv # 0

C7_ZeroAtOptimal ==
    (pc = "ret" /\ call.fn = "curve" /\ call.soil_texture \in SOIL_TEXTURES
        /\ call.ph >= ret.optimal_ph)
    => ret.dose = 0

\* C8: for the five texture classes and both crop categories the forward dose
\* is non-increasing in pH: ph <= ph2 implies dose(ph) >= dose(ph2).
C8_NonIncreasing ==
    (pc = "ret" /\ call.fn = "curve" /\ call.soil_texture \in SOIL_TEXTURES
        /\ call.ph <= call.ph2)
    => ret.dose >= ret.dose2

\* C9: empirical method, a texture string that resolves to nothing: the
\* calculator works on the texture the result reports as soil_texture (the
\* configured default) - the texture it maps and takes the optimal pH of is
\* that one.
C9_DefaultTextureUsed ==
    (Processed /\ method = "VDLUFA" /\ ~IsNone(LastSample.ph_value)
        /\ LastSample.soil_texture # NoneStr
        /\ map_soil_texture(LastSample.soil_texture) = NoneStr)
    => /\ map_soil_texture(frame.soil_texture) = LastResult.soil_texture
       /\ frame.reference_ph
            = Some(get_optimal_ph(LastResult.soil_texture, method_params.crop_type))

\* C10: when calculate_prescription has finished, every sample whose own
\* computation does not raise has its result in the returned list.
C10_BatchSurvives ==
    pc \in {"returned", "raised"}
    => \A i \in 1..Len(soil_data) :
          ~prescription_of(soil_data[i], method_params, method).raised
          => (pc = "returned" /\ i <= Len(results))

\* C11: the inverse functions return current_ph unchanged, without raising,
\* on arithmetic degeneracy: the CEC inverse when NV = 0, CEC = 0,
\* fine-dry-soil = 0, dose factor = 0 or the applied dose <= 0; the empirical
\* inverse when the dose needed to reach the optimal pH is <= 0.
C11_InverseDegenerate ==
    /\ (pc = "ret" /\ call.fn = "cec_reverse"
            /\ (call.nv = 0 \/ call.cec_soil = 0 \/ call.fine_dry_soil = 0
                \/ call.dose = 0 \/ call.lime_kg_ha <= 0))
        => (~ret.raised /\ ret.value = call.current_ph)
    /\ (pc = "ret" /\ call.fn = "vdlufa_reverse"
            /\ vdlufa_improvement(call.current_ph,
                                  map_soil_texture(call.soil_texture),
                                  call.crop_type, call.lime_type) <= 0)
        => (~ret.raised /\ ret.value = call.current_ph)

\* C13: CEC forward/inverse round trip.  For current_ph < target_ph and
\* K * dose # 0 the inverse applied to the forward dose gives target_ph back
\* (to the 0.01 pH the model resolves); the forward dose is 0 whenever
\* current_ph >= target_ph.
C13_CecRoundTrip ==
    (pc = "ret" /\ call.fn = "cec_round_trip")
    => /\ call.current_ph >= call.target_ph
            => (~ret.forward.raised /\ ret.forward.value = 0)
       /\ (call.current_ph < call.target_ph /\ call.nv # 0
                /\ call.cec_soil * call.fine_dry_soil * call.dose # 0)
            => (~ret.forward.raised /\ ~ret.reversed.raised
                /\ ret.reversed.value = call.target_ph)

\* a round trip below the target with a dose factor other than 1.0
C13_Witness ==
    /\ pc = "ret" /\ call.fn = "cec_round_trip"
    /\ call.current_ph < call.target_ph
    /\ call.dose # 10
    /\ ret.forward.value > 0
    /\ ret.reversed.value = call.target_ph

\* the pH the active calculator's inverse function gives for the last sample
\* at a dose
InverseAt(lime) ==
    IF method = "VDLUFA"
    THEN vdlufa_reverse_calculate_ph(lime, frame.soil_texture,
             method_params.crop_type, method_params.lime_type,
             Val(LastSample.ph_value))
    ELSE cec_reverse_calculate_ph(lime, Val(LastSample.ph_value),
             CecSoilOf(LastSample), Val(method_params.fine_dry_soil),
             Val(method_params.nv), method_params.dose).value

\* C12: the reported target pH.  Mode request 'pH Maintenance': current_ph,
\* capped or not.  Any other mode request: a capped result reports the
\* calculator's inverse function at the capped dose, an uncapped result the
\* reference pH (optimal_ph / configured target_ph).
C12_ReportedTargetPh ==
    (Processed /\ frame.applied_mode # "N/A")
    => LET ph == Val(LastSample.ph_value)
       IN  /\ LastResult.target_ph = frame.target_ph
           /\ IF method_params.liming_mode = "pH Maintenance"
              THEN LastResult.target_ph = Some(ph)
              ELSE IF LastResult.was_capped
              THEN LastResult.target_ph = Some(InverseAt(frame.lime_req))
              ELSE LastResult.target_ph = frame.reference_ph

\* a capped maintenance dose: the target pH is still current_ph
C12_Witness ==
    /\ Processed
    /\ method_params.liming_mode = "pH Maintenance"
    /\ LastResult.was_capped
    /\ frame.nominal > frame.lime_req
    /\ LastResult.target_ph = LastSample.ph_value

\* C14: with NV > 0 (dose factor and maximum rate are >= 0 throughout) every
\* result has lime requirement >= 0, whatever the pH, texture, crop category,
\* lime product and liming mode, for either method.
C14_NonNegativeDose ==
    (Processed /\ (method = "VDLUFA" => method_params.nv > 0)
        /\ (method = "CEC" /\ ~IsNone(method_params.nv)
                => Val(method_params.nv) > 0))
    => /\ frame.lime_req >= 0
       /\ LastResult.lime_requirement_kg_ha >= 0

\* C15 as stated: the empirical texture resolver returns null only when its
\* input is null or empty; every non-empty string resolves to a texture.
C15_NullOnlyForEmpty ==
    (pc = "ret" /\ call.fn = "texture" /\ ret.mapped = NoneStr)
    => call.api_texture \in {NoneStr, ""}

\* C15 amended: the resolver returns null exactly when the input is null,
\* when it is a table entry mapped to no class ('Bog', 'half-bog soil'), or
\* when it (empty or not) matches no table entry, neither as written nor
\* upper-cased, and contains none of the keywords sand, clay, loam, lehm,
\* silt; every other string resolves to a texture.
C15_NullWhenUnresolvable ==
    (pc = "ret" /\ call.fn = "texture")
    => LET t == call.api_texture
       IN  ret.mapped = NoneStr
           <=> \/ t = NoneStr
               \/ t \in {"Bog", "half-bog soil"}
               \/ /\ t \notin DOMAIN TEXTURE_MAPPING
                  /\ StrUpper(t) \notin DOMAIN TEXTURE_MAPPING
                  /\ KeywordsIn(t) \cap {"sand", "clay", "loam", "lehm", "silt"}
                        = {}

\* a non-empty string without table entry or keyword resolves to null
C15_Witness ==
    /\ pc = "ret" /\ call.fn = "texture"
    /\ call.api_texture = "Peat"
    /\ ret.mapped = NoneStr

\* C16: every non-null value the empirical resolver returns is one of the
\* five texture classes (so it has an optimal pH, a forward curve and an
\* entry in the empirical clay table).
C16_ResolvedIsTextureClass ==
    (pc = "ret" /\ call.fn = "texture" /\ ret.mapped # NoneStr)
    => /\ ret.mapped \in SOIL_TEXTURES
       /\ ret.mapped \in DOMAIN VDLUFA_TEXTURE_TO_CLAY

\* C17: a sample without pH gets a result with dose 0, applied mode 'N/A', no
\* target pH and was_capped false; it never raises, and the loop goes on to
\* the other samples; a result has a target pH only if its sample has a pH.
C17_NoPhSample ==
    /\ \A i \in 1..Len(results) :
          /\ IsNone(soil_data[i].ph_value)
                => /\ results[i].lime_requirement_kg_ha = 0
                   /\ results[i].applied_mode = "N/A"
                   /\ IsNone(results[i].target_ph)
                   /\ ~results[i].was_capped
          /\ ~IsNone(results[i].target_ph) => ~IsNone(soil_data[i].ph_value)
    /\ pc = "raised" => ~IsNone(NextSample.ph_value)
    /\ (pc = "loop" /\ Len(results) < Len(soil_data)
            /\ IsNone(NextSample.ph_value))
        => ENABLED ProcessSample

\* a sample without pH was given its N/A result and the sample after it was
\* processed to a positive dose
C17_Witness ==
    /\ Len(results) >= 2
    /\ IsNone(soil_data[1].ph_value)
    /\ results[1].applied_mode = "N/A"
    /\ results[2].lime_requirement_kg_ha > 0

\* C19: calculate_prescription returns one result per input sample, in input
\* order: result i carries the id and current pH of sample i, and when the
\* call returns there are as many results as samples.
C19_OneResultPerSampleInOrder ==
    /\ Len(results) <= Len(soil_data)
    /\ \A i \in 1..Len(results) :
          /\ results[i].sample_id = soil_data[i].id
          /\ results[i].current_ph = soil_data[i].ph_value
    /\ pc = "returned" => Len(results) = Len(soil_data)

\* a returned batch of three samples that differ in id and in pH
C19_Witness ==
    /\ pc = "returned"
    /\ Len(soil_data) = 3 /\ Len(results) = 3
    /\ soil_data[1].id # soil_data[2].id
    /\ soil_data[2].ph_value # soil_data[3].ph_value

\* C18: mode request 'pH Maintenance'.  A zero dose because no leaching loss
\* is available (pH below the reference) and a zero dose because the pH is at
\* or above the reference never carry the same applied mode: the first is
\* 'Maintenance', the second 'None (pH at/above ...)'.
C18_ZeroDoseCausesDistinct ==
    (Processed /\ method_params.liming_mode = "pH Maintenance"
        /\ frame.applied_mode # "N/A")
    => LET ph == Val(LastSample.ph_value)
           ref == Val(frame.reference_ph)
       IN  /\ ph >= ref
                => /\ LastResult.lime_requirement_kg_ha = 0
                   /\ LastResult.applied_mode
                        \in {"None (pH at/above optimal)",
                             "None (pH at/above target)"}
           /\ (ph < ref /\ IsNone(frame.caco3_loss))
                => /\ LastResult.lime_requirement_kg_ha = 0
                   /\ LastResult.applied_mode = "Maintenance"

\* a zero maintenance dose for want of a leaching loss
C18_Witness ==
    /\ Processed /\ method_params.liming_mode = "pH Maintenance"
    /\ frame.applied_mode = "Maintenance"
    /\ IsNone(frame.caco3_loss)
    /\ Val(LastSample.ph_value) < Val(frame.reference_ph)
    /\ LastResult.lime_requirement_kg_ha = 0

\* the sample's rainfall lookup fails: no geometry, a geometry without
\* coordinates, of an unsupported type or with malformed coordinates, or a
\* location the rainfall data does not cover
RainfallFails(sample) ==
    \/ IsNone(sample.boundary)
    \/ LET g == Val(sample.boundary)
       IN  \/ g.type \notin {"Point", "Polygon", "MultiPolygon"}
           \/ g.ring = <<>>
           \/ ~g.numeric
           \/ IsNone(get_rainfall_from_geometry(g))

\* the sample with its boundary taken away
WithoutBoundary(sample) == [sample EXCEPT !.boundary = None]

\* C20: a rainfall failure leaves the sample's rainfall and leaching loss
\* absent and never aborts: the dose, mode, target pH and capping of the
\* result are those of the same sample without geometry, and the call raises
\* on such a sample only if it raises without geometry as well.
C20_RainfallFailureNotFatal ==
    /\ (Processed /\ RainfallFails(LastSample))
        => /\ IsNone(LastResult.annual_rainfall_mm)
           /\ IsNone(LastResult.caco3_loss_kg_ha_year)
           /\ IsNone(frame.caco3_loss)
           /\ LastResult
                = result_of(WithoutBoundary(LastSample), method_params, method,
                      prescription_of(WithoutBoundary(LastSample),
                                      method_params, method))
    /\ (pc = "raised" /\ RainfallFails(NextSample))
        => prescription_of(WithoutBoundary(NextSample), method_params,
                           method).raised

\* a malformed polygon (empty exterior ring) on a sample that was processed
\* in maintenance mode: no rainfall, no loss, dose 0
C20_Witness ==
    /\ Processed
    /\ LastSample.boundary = Some(Geometry("Polygon", <<>>, TRUE))
    /\ method_params.liming_mode = "pH Maintenance"
    /\ frame.applied_mode = "Maintenance"
    /\ IsNone(LastResult.annual_rainfall_mm)
    /\ LastResult.lime_requirement_kg_ha = 0

\* C21: two geometries whose centroids round to the same (longitude,
\* latitude) get the same rainfall (a value or none), and the body of the
\* lookup runs at most once for a rounded coordinate, failed attempts
\* included.
C21_OneLookupPerCoordinate ==
    /\ \A i, j \in DOMAIN ret :
            (/\ ~IsNone(lookup_key(call.geometries[i]))
             /\ lookup_key(call.geometries[i]) = lookup_key(call.geometries[j]))
                => ret[i] = ret[j]
    /\ \A i, j \in DOMAIN lookups : lookups[i] = lookups[j] => i = j

\* the textures each method's loss model knows, as the program's tables
\* list them
VdlufaClayTextures == {"Sand", "Schwach Lehm Sand", "Stark Lehmiger Sand", "Sandiger Schl Lehm", "Toniger Lehm b.Ton", "Lehm", "Schluff", "Ton"}
UsdaClayTextures == {"Sand", "Loamy Sand", "Sandy Loam", "Loam", "Silt Loam", "Silt", "Sandy Clay Loam", "Clay Loam", "Sandy Clay", "Silty Clay", "Clay", "Sandy Silt Loam", "Organic"}
LowerClayTextures == {"sand", "loamy sand", "sandy loam", "loam", "silt loam", "silt", "sandy clay loam", "clay loam", "sandy clay", "silty clay", "clay", "organic"}

LossReturned == pc = "ret" /\ call.fn = "caco3_loss"

\* C22: the loss model returns null exactly when the texture is not in the
\* clay table of the method it was called for; a texture only the other
\* method knows ('Sandy Loam' for the empirical method, 'Lehm' for the CEC
\* method) gives null, never the other table's or a default texture's loss,
\* and a texture the method knows gives a positive loss.
C22_NullIffNotInMethodTable ==
    LossReturned =>
        /\ call.method_name = "VDLUFA" =>
                (IsNone(ret) <=> call.soil_texture \notin VdlufaClayTextures)
        /\ call.method_name = "CEC" =>
                (IsNone(ret) <=> call.soil_texture
                                    \notin UsdaClayTextures \cup LowerClayTextures)
        /\ ~IsNone(ret) => Val(ret) > 0

C22_Witness ==
    /\ LossReturned
    /\ call.soil_texture = "Sandy Loam"
    /\ call.method_name = "VDLUFA"
    /\ IsNone(ret)

\* the samples of the batch that have a computed dose
Computed == {i \in DOMAIN results : results[i].applied_mode # "N/A"}

RECURSIVE SumOver(_, _)
SumOver(f, I) ==
    IF I = {} THEN 0
    ELSE LET i == CHOOSE x \in I : TRUE IN f[i] + SumOver(f, I \ {i})

\* the area of sample i, nothing counting as 0 (0.01 ha)
AreaOf == [i \in DOMAIN soil_data |-> IF IsNone(soil_data[i].area) THEN 0 ELSE Val(soil_data[i].area)]
\* the dose of sample i in 0.01 kg/ha
DoseOf == [i \in DOMAIN results |-> results[i].lime_requirement_kg_ha \div 10]

DoseToOptimal ==
    vdlufa_improvement(Val(LastSample.ph_value), map_soil_texture(frame.soil_texture),
                       method_params.crop_type, method_params.lime_type)

\* C24: empirical method, mode request other than 'pH Maintenance', a cap
\* 0 < max rate < nominal dose applied: the reported pH is
\* current_ph + min(1, capped / dose_to_optimal) * (optimal_ph - current_ph)
\* and lies strictly between current_ph and optimal_ph, that is, the optimal
\* pH is above the current pH and the capped dose is a proper fraction of
\* the dose to the optimal pH.
C24_CappedAchievedPh ==
    (/\ Processed
     /\ method = "VDLUFA"
     /\ method_params.liming_mode # "pH Maintenance"
     /\ LastResult.was_capped
     /\ 0 < frame.lime_req /\ frame.lime_req < frame.nominal)
    => LET ph == Val(LastSample.ph_value)
           optimal_ph == Val(frame.reference_ph)
       IN  /\ ph < optimal_ph
           /\ frame.lime_req < DoseToOptimal
           /\ LastResult.target_ph
                = Some(ph + MulDiv(frame.lime_req, optimal_ph - ph, DoseToOptimal))
           /\ ph <= Val(LastResult.target_ph)
           /\ Val(LastResult.target_ph) < optimal_ph

\* the dose a result reports for a nominal dose: limited by the maximum rate,
\* to 0.01 kg/ha
ReportedDose(nominal) ==
    LET max_rate == method_params.max_application_rate
    IN  Round2(IF ~IsNone(max_rate) /\ nominal > Val(max_rate) THEN Val(max_rate)
               ELSE nominal)

\* C25: mode request 'pH Improvement', either method: the applied mode is
\* 'Improvement' and the dose is the forward curve / formula at the sample's
\* pH (limited by the maximum rate), whether or not the sample has a leaching
\* loss; the calculator is not given the loss.
C25_ImprovementIgnoresLoss ==
    (Processed /\ method_params.liming_mode = "pH Improvement"
        /\ ~IsNone(LastSample.ph_value) /\ frame.applied_mode # "N/A")
    => /\ LastResult.applied_mode = "Improvement"
       /\ frame.nominal = ForwardDose(Val(frame.reference_ph))
       /\ LastResult.lime_requirement_kg_ha
            = ReportedDose(ForwardDose(Val(frame.reference_ph)))
       /\ IsNone(frame.caco3_loss)

\* an improvement request for a sample that has a leaching loss gets the
\* forward dose
C25_Witness ==
    /\ Processed
    /\ method_params.liming_mode = "pH Improvement"
    /\ ~IsNone(LastResult.caco3_loss_kg_ha_year)
    /\ LastResult.lime_requirement_kg_ha > 0

\* C26: the bicarbonate factor on the pH grid 0.00, 0.01, ..., 14.00.  It is
\* within [5, 500] mg/L, it does not decrease with pH, it increases strictly
\* wherever one of the two values is not clamped, and it has no jump: 0.01 pH
\* further on it is at most 4 mg/L and at most 10 % higher, at the former
\* step boundaries 5.0, 5.5, 6.0, 6.5, 7.0, 7.5 as everywhere else.
C26_BicarbonateSmooth ==
    (pc = "ret" /\ call.fn = "bicarbonate")
    => /\ 5000 <= ret.factor /\ ret.factor <= 500000
       /\ ret.factor <= ret.factor2
       /\ (call.ph < call.ph2 /\ ret.factor2 > 5000 /\ ret.factor < 500000)
            => ret.factor < ret.factor2
       /\ call.ph2 = call.ph + 1
            => /\ ret.factor2 - ret.factor <= 4000
               /\ 10 * (ret.factor2 - ret.factor) <= ret.factor

\* across the former step boundary 6.0, between the clamps
C26_Witness ==
    /\ pc = "ret" /\ call.fn = "bicarbonate"
    /\ call.ph = 599 /\ call.ph2 = 600
    /\ 5000 < ret.factor /\ ret.factor < ret.factor2 /\ ret.factor2 < 500000

\* the standard requirement of a direct CEC call, from a given pH
StandardFrom(ph) ==
    cec_calculate_standard(ph, call.target_ph, call.cec_soil, call.fine_dry_soil,
                           call.nv, call.dose)

\* the pH derived from the saturation of a direct CEC call:
\* 4.5 + (s / 50) * 2.0 up to 50 %, 6.5 + ((s - 50) / 50) * 1.5 above
DerivedPh ==
    LET s == Val(call.modified_s_cec)
    IN  IF s <= 50 THEN 450 + (s * 200) \div 50 ELSE 650 + ((s - 50) * 150) \div 50

\* C27: the CEC improvement formula ('pH Improvement').  With both saturation
\* percentages given: 0 when the average of current_ph and the derived pH is
\* above the target pH, otherwise the mean of the standard requirement from
\* current_ph and the standard requirement from the derived pH.  With either
\* percentage missing: the standard requirement from current_ph.
C27_SaturationAdjustment ==
    (pc = "ret" /\ call.fn = "cec" /\ call.liming_mode = "pH Improvement")
    => IF IsNone(call.s_cec_percentage) \/ IsNone(call.modified_s_cec)
       THEN ret = StandardFrom(call.current_ph)
       ELSE IF call.current_ph + DerivedPh > 2 * call.target_ph
       THEN ret = Returned(0)
       ELSE LET a == StandardFrom(call.current_ph)
                b == StandardFrom(DerivedPh)
            IN  IF a.raised \/ b.raised THEN ret.raised
                ELSE ret = Returned((a.value + b.value) \div 2)

\* a sample below the target whose average with the derived pH is above it
C27_Witness ==
    /\ pc = "ret" /\ call.fn = "cec" /\ call.liming_mode = "pH Improvement"
    /\ ~IsNone(call.s_cec_percentage) /\ ~IsNone(call.modified_s_cec)
    /\ call.current_ph < call.target_ph
    /\ call.current_ph + DerivedPh > 2 * call.target_ph
    /\ ~StandardFrom(call.current_ph).raised
    /\ StandardFrom(call.current_ph).value > 0
    /\ ret = Returned(0)

\* C28: texture strings that differ only in letter case resolve to the same
\* empirical texture class: whatever string was resolved, every string with
\* the same letters resolves to the class it got.
C28_CaseInsensitive ==
    (pc = "ret" /\ call.fn = "texture" /\ call.api_texture # NoneStr)
    => \A t \in RawTextures :
           StrLower(t) = StrLower(call.api_texture)
           => map_soil_texture(t) = ret.mapped

\* the branch VDLUFACalculator.calculate_lime_requirement takes (lines 384-428)
vdlufa_branch(current_ph, optimal_ph, liming_mode) ==
    IF liming_mode = "pH Maintenance" THEN
        IF current_ph >= optimal_ph THEN "None" ELSE "Maintenance"
    ELSE IF liming_mode = "Automatic" THEN
        IF current_ph >= optimal_ph THEN "None" ELSE "Improvement"
    ELSE "Improvement"

\* the branch CECCalculator.calculate_lime_requirement takes (lines 787-823)
cec_branch(current_ph, target_ph, liming_mode) ==
    IF liming_mode = "pH Maintenance" THEN
        IF current_ph >= target_ph THEN "None" ELSE "Maintenance"
    ELSE IF liming_mode = "Automatic" THEN
        IF current_ph > target_ph THEN "None"
        ELSE IF GeRefMinusTenth(current_ph, target_ph) THEN "Maintenance"
        ELSE "Improvement"
    ELSE "Improvement"

\* the branch the calculator took for the last sample
BranchTaken ==
    IF method = "VDLUFA"
    THEN vdlufa_branch(Val(LastSample.ph_value), Val(frame.reference_ph),
                       method_params.liming_mode)
    ELSE cec_branch(Val(LastSample.ph_value), Val(frame.reference_ph),
                    method_params.liming_mode)

\* what an applied_mode label says
LabelKind(applied_mode) ==
    IF applied_mode \in {"Maintenance", "Improvement"} THEN applied_mode ELSE "None"

\* C29: in every result of either method the applied_mode label names the
\* branch the calculator took for the sample: a 'None (...)' label exactly
\* when it returned 0 for a pH at/above the reference in a Maintenance or
\* Automatic request, 'Maintenance' exactly when the dose came from its
\* maintenance branch, 'Improvement' exactly when it came from the forward
\* curve / formula; and a 'None (...)' label goes with dose 0, not capped.
C29_LabelNamesBranch ==
    (Processed /\ ~IsNone(LastSample.ph_value) /\ frame.applied_mode # "N/A")
    => /\ LabelKind(LastResult.applied_mode) = BranchTaken
       /\ LabelKind(LastResult.applied_mode) = "None"
            => /\ LastResult.lime_requirement_kg_ha = 0
               /\ ~LastResult.was_capped

\* C30: CEC method, mode request other than 'pH Maintenance': whenever the
\* dose is capped, the achieved pH the result reports lies between the
\* sample's pH and the configured target pH, with or without the saturation
\* adjustment and in the maintenance band of 'Automatic' too.
C30_CecCappedAchievedPh ==
    (Processed /\ method = "CEC" /\ ~frame.raised /\ frame.applied_mode # "N/A"
        /\ method_params.liming_mode # "pH Maintenance" /\ frame.was_capped)
    => /\ Val(LastSample.ph_value) <= Val(LastResult.target_ph)
       /\ Val(LastResult.target_ph) <= method_params.target_ph

====
